---- MODULE Spec2Model ----
(***************************************************************************)
(* A model of monetproxy: the block parser (Blocks), the observers that    *)
(* drive it (BlockObserver, MessageObserver), the presenter they write to  *)
(* (TextFormatter) and the per-connection proxy pipeline (listen, pump).   *)
(***************************************************************************)
EXTENDS Integers, Sequences, FiniteSets, TLC

\* ------------------------------------------------------------------ bounds

\* The bytes a stream is made of.  As the low byte of a header: 0 = empty
\* block, 1 = empty last block, 2 = block of one byte, 3 = last block of one
\* byte.  As the high byte, anything but 0 makes a block of 128 bytes or more.
Bytes == {0, 1, 2, 3}

\* The longest stream fed to one parser.
MaxLen == 5

\* The ordinal of the latest fallible call of one process call that may fail.
MaxFail == 1

\* The connections the listener accepts.
MaxConn == 1

\* The reads, over all pumps, that return bytes.
MaxReads == 2

\* The faults, over all threads: a failing accept, connect, read or write
\* on a socket, or a presenter call whose output fails.
MaxFaults == 2

\* The longest byte slice handed to one write of the presenter.
MaxSlice == 2

\* The calls made on one presenter whose output is looked at.
MaxCalls == 4

\* ----------------------------------------------------------------- helpers

Min(a, b) == IF a < b THEN a ELSE b

Last(s) == s[Len(s)]

\* All sequences over S of length lo..hi.
SeqsOf(S, lo, hi) == UNION {[1..n -> S] : n \in lo..hi}

\* ------------------------------------------------- presenter (formatter.rs)

Sides == {"Client", "Server"}

\* One entry of the presenter's log: a call on the shared presenter, or the
\* taking ("lock") and dropping ("unlock") of the mutex guard around it.
Entry(op, side, text, n, remarks, data, ok) ==
    [op |-> op, side |-> side, text |-> text, n |-> n,
     remarks |-> remarks, data |-> data, eol |-> FALSE, ok |-> ok]

LockEntry == Entry("lock", "", "", 0, <<>>, <<>>, TRUE)

UnlockEntry == Entry("unlock", "", "", 0, <<>>, <<>>, TRUE)

\* TextFormatter::new
TextFormatter_new ==
    [force_binary |-> FALSE, in_block |-> FALSE, at_start |-> TRUE, log |-> <<>>]

Logged(f, e) == [f EXCEPT !.log = Append(@, e)]

\* Formatter::connected: one line, no assertion.
connected(f, fail) ==
    IF fail
    THEN [f |-> Logged(f, Entry("connected", "", "", 0, <<>>, <<>>, FALSE)),
          result |-> "err"]
    ELSE [f |-> Logged(f, Entry("connected", "", "", 0, <<>>, <<>>, TRUE)),
          result |-> "ok"]

\* Formatter::message: a one-line event, only outside a block.
message(f, side, m, fail) ==
    IF f.in_block \/ ~f.at_start
    THEN [f |-> f, result |-> "panic"]
    ELSE IF fail
    THEN [f |-> Logged(f, Entry("message", side, m, 0, <<>>, <<>>, FALSE)),
          result |-> "err"]
    ELSE [f |-> Logged(f, Entry("message", side, m, 0, <<>>, <<>>, TRUE)),
          result |-> "ok"]

\* Formatter::start_block: in_block is set only once the header line is out.
start_block(f, side, text, n, remarks, fail) ==
    IF f.in_block \/ ~f.at_start
    THEN [f |-> f, result |-> "panic"]
    ELSE IF fail
    THEN [f |-> Logged(f, Entry("start_block", side, text, n, remarks, <<>>, FALSE)),
          result |-> "err"]
    ELSE [f |-> [Logged(f, Entry("start_block", side, text, n, remarks, <<>>, TRUE))
                   EXCEPT !.in_block = TRUE],
          result |-> "ok"]

\* io::Write for TextFormatter, as dump_text and dump_binary use it: the
\* bytes of one dump.  at_start follows the last byte written.
write(f, data, ends_line, fail) ==
    IF ~f.in_block
    THEN [f |-> f, result |-> "panic"]
    ELSE IF fail
    THEN [f |-> [Logged(f, [Entry("write", "", "", 0, <<>>, data, FALSE)
                               EXCEPT !.eol = ends_line])
                   EXCEPT !.at_start = FALSE],
          result |-> "err"]
    ELSE [f |-> [Logged(f, [Entry("write", "", "", 0, <<>>, data, TRUE)
                               EXCEPT !.eol = ends_line])
                   EXCEPT !.at_start = ends_line],
          result |-> "ok"]

\* Formatter::end_block: in_block is cleared only after the closing line
\* has been written and flushed.
end_block(f, fail) ==
    IF ~f.in_block
    THEN [f |-> f, result |-> "panic"]
    ELSE IF fail
    THEN [f |-> [Logged(f, Entry("end_block", "", "", 0, <<>>, <<>>, FALSE))
                   EXCEPT !.at_start = TRUE],
          result |-> "err"]
    ELSE [f |-> [Logged(f, Entry("end_block", "", "", 0, <<>>, <<>>, TRUE))
                   EXCEPT !.at_start = TRUE, !.in_block = FALSE],
          result |-> "ok"]

\* is_printable_text: valid UTF-8 (here: ASCII) without a control character
\* other than newline and tab.
is_printable_text(data) ==
    \A i \in 1..Len(data) :
        /\ data[i] < 128
        /\ ~((data[i] < 32 \/ data[i] = 127) /\ data[i] # 10 /\ data[i] # 9)

\* dump_text: every character is written; a newline ends the line.
dump_text(f, data, fail) ==
    IF data = <<>> THEN [f |-> f, result |-> "ok"]
    ELSE write(f, data, Last(data) = 10, fail)

\* dump_binary: rows of 16 bytes, each ended by a newline.
dump_binary(f, data, fail) ==
    IF data = <<>> THEN [f |-> f, result |-> "ok"]
    ELSE write(f, data, TRUE, fail)

\* print_message, the classification: text unless force_binary is set.
is_text(f, data) == IF f.force_binary THEN FALSE ELSE is_printable_text(data)

\* print_message, the label of the block: "text, n bytes", "text, n bytes,
\* no trailing newline" or "binary, n bytes"; n is kept beside it.
label(f, data) ==
    IF is_text(f, data)
    THEN IF data = <<>> \/ Last(data) = 10
         THEN "text" ELSE "text, no trailing newline"
    ELSE "binary"

\* print_message after start_block: the dump, unless start_block failed.
then_dump(r, text, data, stage) ==
    IF r.result # "ok" THEN r
    ELSE IF text THEN dump_text(r.f, data, stage = "write")
    ELSE dump_binary(r.f, data, stage = "write")

\* print_message after the dump: end_block, unless something failed.
then_end(r, stage) ==
    IF r.result # "ok" THEN r ELSE end_block(r.f, stage = "end_block")

\* print_message: the label, then start_block, the dump, end_block; the
\* first failure ends it.  stage names the call whose output fails.
print_message(f, side, data, remarks, stage) ==
    then_end(then_dump(start_block(f, side, label(f, data), Len(data), remarks,
                                   stage = "start_block"),
                       is_text(f, data), data, stage),
             stage)

\* ------------------------------- presenter, its output (formatter.rs)

\* What reaches the presenter's output, token by token: "DR" the corner
\* that opens a block (with the header text after it), "V" the left rail,
\* "UR" the corner that closes a block, "BU" the bullet of a one-line event
\* (with its text), "NL" a newline, "x" any byte of a dump but a newline.
Rail == "V"

DumpBytes == {"x", "NL"}

\* TextFormatter::new, with the output so far; panicked tells that an
\* assertion has failed.
TextOut_new ==
    [out |-> <<>>, in_block |-> FALSE, at_start |-> TRUE, panicked |-> FALSE]

Emit(f, tokens) == [f EXCEPT !.out = @ \o tokens]

Panicked(f) == [f EXCEPT !.panicked = TRUE]

\* A variant: the newline is written, at_start is left as it is.
go_to_start_unset(f) ==
    IF ~f.in_block THEN Panicked(f)
    ELSE Emit(f, IF f.at_start THEN <<>> ELSE <<"NL">>)

\* TextFormatter::go_to_start
go_to_start(f) ==
    IF ~f.in_block THEN Panicked(f)
    ELSE [Emit(f, IF f.at_start THEN <<>> ELSE <<"NL">>) EXCEPT !.at_start = TRUE]

\* The index of the first newline of buf, or Len(buf) if there is none.
RECURSIVE line_end(_, _)
line_end(buf, i) ==
    IF i >= Len(buf) \/ buf[i] = "NL" THEN i ELSE line_end(buf, i + 1)

\* buf.split_inclusive(|b| *b == b'\n')
RECURSIVE split_inclusive(_)
split_inclusive(buf) ==
    IF buf = <<>> THEN <<>>
    ELSE <<SubSeq(buf, 1, line_end(buf, 1))>>
         \o split_inclusive(SubSeq(buf, line_end(buf, 1) + 1, Len(buf)))

\* A variant: the rail is written before every piece, wherever it starts.
write_line_always_rail(f, line) ==
    [Emit(f, <<Rail>> \o line) EXCEPT !.at_start = (Last(line) = "NL")]

\* TextFormatter::write, the body of its loop for one line.
write_line(f, line) ==
    [Emit(f, (IF f.at_start THEN <<Rail>> ELSE <<>>) \o line)
       EXCEPT !.at_start = (Last(line) = "NL")]

RECURSIVE write_lines(_, _)
write_lines(f, lines) ==
    IF lines = <<>> THEN f
    ELSE write_lines(write_line(f, Head(lines)), Tail(lines))

\* io::Write::write for TextFormatter
TextFormatter_write(f, buf) ==
    IF ~f.in_block THEN Panicked(f) ELSE write_lines(f, split_inclusive(buf))

\* Formatter::connected for TextFormatter
TextFormatter_connected(f) == Emit(f, <<"BU", "NL">>)

\* Formatter::message for TextFormatter
TextFormatter_message(f) ==
    IF f.in_block \/ ~f.at_start THEN Panicked(f) ELSE Emit(f, <<"BU", "NL">>)

\* Formatter::start_block for TextFormatter
TextFormatter_start_block(f) ==
    IF f.in_block \/ ~f.at_start THEN Panicked(f)
    ELSE [Emit(f, <<"DR", "NL">>) EXCEPT !.in_block = TRUE]

\* end_block after go_to_start has returned g.
closing_line(g) ==
    IF g.panicked THEN g ELSE [Emit(g, <<"UR", "NL">>) EXCEPT !.in_block = FALSE]

\* Formatter::end_block for TextFormatter
TextFormatter_end_block(f) ==
    IF ~f.in_block THEN Panicked(f) ELSE closing_line(go_to_start(f))

\* --------------------------------------------------- failures of the output

\* Which fallible call of one operation fails (n = 0: none does), and in
\* which presenter call of print_message the output error happens.
Stages == {"start_block", "write", "end_block"}

NoFail == [n |-> 0, stage |-> "none"]

FailChoices == {NoFail} \cup {[n |-> k, stage |-> s] : k \in 1..MaxFail, s \in Stages}

StageNow(fail) == IF fail.n = 1 THEN fail.stage ELSE "none"

Tick(fail) == IF fail.n > 0 THEN [fail EXCEPT !.n = @ - 1] ELSE fail

\* ------------------------------------------------ block parser (observers.rs)

CLOSE_MESSAGE == "closed its side of the connection"

\* Blocks::new
Blocks_new == [buffer |-> <<>>, goal |-> 2, last_block |-> FALSE]

\* A variant: the header read big-endian.
from_be_bytes(buffer) == (256 * buffer[1] + buffer[2]) % 65536

\* u16::from_le_bytes(buffer[..2])
from_le_bytes(buffer) == (buffer[1] + 256 * buffer[2]) % 65536

\* What a callback works on: the reassembly buffer of a MessageObserver, the
\* shared presenter, the record of the callback invocations made so far and
\* the failure still to come.
Env(msg, f, calls, fail) == [message |-> msg, f |-> f, calls |-> calls, fail |-> fail]

Invocation(block, is_last) == [payload |-> block, is_last |-> is_last]

\* The closure a test hands to Blocks::process: it records the block, and
\* returns an error when told to.
callback_plain(env, side, block, is_last) ==
    [env |-> [env EXCEPT !.calls = Append(@, Invocation(block, is_last)),
                         !.fail = Tick(@)],
     result |-> IF StageNow(env.fail) = "none" THEN "ok" ELSE "err"]

\* The closure of BlockObserver::on_data after print_message has returned r.
printed_block(env, r, block, is_last) ==
    [env |-> [env EXCEPT !.calls = Append(@, Invocation(block, is_last)),
                         !.f = r.f, !.fail = Tick(@)],
     result |-> r.result]

\* A variant: the two remarks swapped.
callback_block_swapped(env, side, block, is_last) ==
    printed_block(env,
                  print_message(env.f, side, block,
                                <<IF is_last THEN "does not end the message"
                                  ELSE "ends the message">>,
                                StageNow(env.fail)),
                  block, is_last)

\* The closure of BlockObserver::on_data: one presenter block per block,
\* under the guard on_data took before calling process.
callback_block(env, side, block, is_last) ==
    printed_block(env,
                  print_message(env.f, side, block,
                                <<IF is_last THEN "ends the message"
                                  ELSE "does not end the message">>,
                                StageNow(env.fail)),
                  block, is_last)

\* A variant: the message is not cleared after it has been printed.
printed_message_kept(env, r, block, is_last) ==
    [env |-> [env EXCEPT !.calls = Append(@, Invocation(block, is_last)),
                         !.message = @ \o block,
                         !.f = IF r.result = "panic" THEN r.f
                               ELSE Logged(r.f, UnlockEntry),
                         !.fail = Tick(@)],
     result |-> r.result]

\* The closure of MessageObserver::on_data after print_message has returned
\* r: the message is cleared, the guard is dropped, r is the result.
printed_message(env, r, block, is_last) ==
    [env |-> [env EXCEPT !.calls = Append(@, Invocation(block, is_last)),
                         !.message = <<>>,
                         !.f = IF r.result = "panic" THEN r.f
                               ELSE Logged(r.f, UnlockEntry),
                         !.fail = Tick(@)],
     result |-> r.result]

\* The closure of MessageObserver::on_data: the payload is appended to the
\* message; on the last block the guard is taken and the message printed.
callback_message(env, side, block, is_last) ==
    IF is_last
    THEN printed_message(env,
                         print_message(Logged(env.f, LockEntry), side,
                                       env.message \o block, <<>>,
                                       StageNow(env.fail)),
                         block, is_last)
    ELSE [env |-> [env EXCEPT !.calls = Append(@, Invocation(block, is_last)),
                              !.message = @ \o block],
          result |-> "ok"]

callback(cb, env, side, block, is_last) ==
    CASE cb = "block"   -> callback_block(env, side, block, is_last)
      [] cb = "message" -> callback_message(env, side, block, is_last)
      [] OTHER          -> callback_plain(env, side, block, is_last)

\* A variant: `result?` before the reset, so a failed callback leaves the
\* block in the buffer.
called_back_no_reset(self, r) ==
    [self |-> IF r.result # "ok" THEN self
              ELSE [self EXCEPT !.buffer = <<>>, !.goal = 2],
     env |-> r.env, result |-> r.result]

\* Blocks::process after the callback has returned r: the reset, then r.
called_back(self, r) ==
    [self |-> IF r.result = "panic" THEN self
              ELSE [self EXCEPT !.buffer = <<>>, !.goal = 2],
     env |-> r.env, result |-> r.result]

\* Blocks::process once buffer.len() has reached goal and the header, if
\* this was one, has been decoded: the callback on buffer[2..].
emit(self, cb, env, side) ==
    called_back(self, callback(cb, env, side,
                               SubSeq(self.buffer, 3, Len(self.buffer)),
                               self.last_block))

\* Blocks::process, the decoding of a header that has just been read.
decode_header(self) ==
    [self EXCEPT !.goal = @ + (from_le_bytes(SubSeq(self.buffer, 1, 2)) \div 2),
                 !.last_block = (from_le_bytes(SubSeq(self.buffer, 1, 2)) % 2) # 0]

\* A variant: the whole chunk is moved into the buffer, past the goal.
to_take_all(self, data) == Len(data)

\* Blocks::process, the number of bytes moved into the buffer in one turn.
to_take(self, data) == Min(Len(data), self.goal - Len(self.buffer))

RECURSIVE process(_, _, _, _, _)
RECURSIVE moved(_, _, _, _, _)
RECURSIVE decoded(_, _, _, _, _)
RECURSIVE emitted(_, _, _, _)

\* A variant: the error is kept, and returned once the whole chunk has
\* been read.
emitted_reads_on(e, rest, cb, side) ==
    IF e.result = "panic" THEN e
    ELSE [process(e.self, rest, cb, e.env, side)
            EXCEPT !.result = IF e.result = "err" THEN "err" ELSE @]

\* Blocks::process after `result?`: an error ends the call, the rest of
\* the chunk unread.
emitted(e, rest, cb, side) ==
    IF e.result = "ok" THEN process(e.self, rest, cb, e.env, side) ELSE e

\* A variant: no fall-through for an empty block, the parser reads on.
decoded_reads_on(self, rest, cb, env, side) == process(self, rest, cb, env, side)

\* Blocks::process after a header has been decoded: situation 1 reads on,
\* situation 2 falls through to the callback.
decoded(self, rest, cb, env, side) ==
    IF self.goal > 2 THEN process(self, rest, cb, env, side)
    ELSE emitted(emit(self, cb, env, side), rest, cb, side)

\* Blocks::process after bytes have been moved into the buffer.
moved(self, rest, cb, env, side) ==
    IF Len(self.buffer) < self.goal THEN process(self, rest, cb, env, side)
    ELSE IF ~(self.goal >= 2)
    THEN [self |-> self, env |-> env, result |-> "panic"]
    ELSE IF self.goal = 2
    THEN decoded(decode_header(self), rest, cb, env, side)
    ELSE emitted(emit(self, cb, env, side), rest, cb, side)

\* Blocks::process: the loop over the chunk.
process(self, data, cb, env, side) ==
    IF data = <<>> THEN [self |-> self, env |-> env, result |-> "ok"]
    ELSE IF ~(Len(self.buffer) < self.goal)
    THEN [self |-> self, env |-> env, result |-> "panic"]
    ELSE moved([self EXCEPT !.buffer = @ \o SubSeq(data, 1, to_take(self, data))],
               SubSeq(data, to_take(self, data) + 1, Len(data)),
               cb, env, side)

\* A variant: one byte too many counted as a header.
describe_eof_off_by_one(self) ==
    IF Len(self.buffer) = self.goal THEN "panic"
    ELSE CASE Len(self.buffer) = 0 -> CLOSE_MESSAGE
           [] Len(self.buffer) <= 2 -> "eof on incomplete block header"
           [] OTHER -> "eof on incomplete block body"

\* Blocks::describe_eof
describe_eof(self) ==
    IF Len(self.buffer) = self.goal THEN "panic"
    ELSE CASE Len(self.buffer) = 0 -> CLOSE_MESSAGE
           [] Len(self.buffer) = 1 -> "eof on incomplete block header"
           [] OTHER -> "eof on incomplete block body"

\* ---------------------------------------------------- observers (observers.rs)

\* An observer: its kind, its side, its parser and its reassembly buffer.
\* A RawObserver has neither parser nor buffer; they stay as created.
Observer_new(kind, side) ==
    [kind |-> kind, side |-> side, blocks |-> Blocks_new, message |-> <<>>]

Outcome(o, f, calls, result) == [o |-> o, f |-> f, calls |-> calls, result |-> result]

\* The guard is dropped when the call returns; a panic leaves it poisoned.
Unlocked(r) == IF r.result = "panic" THEN r.f ELSE Logged(r.f, UnlockEntry)

\* A variant: the guard outlives the call, it is not dropped at the return.
raw_printed_held(o, r, calls) == Outcome(o, r.f, calls, r.result)

\* RawObserver::on_data after print_message has returned r.
raw_printed(o, r, calls) == Outcome(o, Unlocked(r), calls, r.result)

\* RawObserver::on_data
RawObserver_on_data(o, data, f, calls, fail) ==
    raw_printed(o, print_message(Logged(f, LockEntry), o.side, data, <<>>,
                                 StageNow(fail)),
                calls)

\* BlockObserver::on_data after process has returned r.
block_processed(o, r) ==
    Outcome([o EXCEPT !.blocks = r.self],
            IF r.result = "panic" THEN r.env.f ELSE Logged(r.env.f, UnlockEntry),
            r.env.calls, r.result)

\* BlockObserver::on_data: the guard is taken first and held until on_data
\* returns.
BlockObserver_on_data(o, data, f, calls, fail) ==
    block_processed(o, process(o.blocks, data, "block",
                               Env(<<>>, Logged(f, LockEntry), calls, fail), o.side))

\* MessageObserver::on_data after process has returned r.
message_processed(o, r) ==
    Outcome([o EXCEPT !.blocks = r.self, !.message = r.env.message],
            r.env.f, r.env.calls, r.result)

\* MessageObserver::on_data
MessageObserver_on_data(o, data, f, calls, fail) ==
    message_processed(o, process(o.blocks, data, "message",
                                 Env(o.message, f, calls, fail), o.side))

on_data(o, data, f, calls, fail) ==
    CASE o.kind = "raw"     -> RawObserver_on_data(o, data, f, calls, fail)
      [] o.kind = "block"   -> BlockObserver_on_data(o, data, f, calls, fail)
      [] o.kind = "message" -> MessageObserver_on_data(o, data, f, calls, fail)

\* One-line message under a guard taken for that statement alone.
locked_message(o, text, f, calls, fail) ==
    raw_printed(o, message(Logged(f, LockEntry), o.side, text, fail.n = 1), calls)

\* A variant: a message that is still missing its last block is reported.
close_text_pending(o) ==
    IF o.kind = "raw" THEN CLOSE_MESSAGE
    ELSE IF o.message # <<>> THEN "eof on incomplete message"
    ELSE describe_eof(o.blocks)

\* The text on_close sends: RawObserver has no parser to ask.
close_text(o) == IF o.kind = "raw" THEN CLOSE_MESSAGE ELSE describe_eof(o.blocks)

\* on_close of the three observers
on_close(o, f, calls, fail) ==
    IF close_text(o) = "panic" THEN Outcome(o, f, calls, "panic")
    ELSE locked_message(o, close_text(o), f, calls, fail)

\* describe_error
describe_error(side, while_writing) ==
    CASE while_writing /\ side = "Client" -> "encountered an error writing to server"
      [] while_writing /\ side = "Server" -> "encountered an error writing to client"
      [] OTHER -> "could not be read"

\* on_error of the three observers
on_error(o, while_writing, f, calls, fail) ==
    locked_message(o, describe_error(o.side, while_writing), f, calls, fail)

\* RawObserver::on_unix0 after on_data has returned r: the note follows,
\* under a guard of its own, unless on_data failed or there is no note.
raw_unix0_noted(o, r, note, fail) ==
    IF r.result # "ok" \/ note = "" THEN r
    ELSE locked_message(o, note, r.f, r.calls, Tick(fail))

\* on_unix0 of the three observers; note = "" stands for None.
\* MessageObserver ignores the call, BlockObserver sends the note,
\* RawObserver passes the bytes to its on_data and then sends the note.
on_unix0(o, data, note, f, calls, fail) ==
    CASE o.kind = "message" -> Outcome(o, f, calls, "ok")
      [] o.kind = "block" ->
           IF note = "" THEN Outcome(o, f, calls, "ok")
           ELSE locked_message(o, note, f, calls, fail)
      [] o.kind = "raw" ->
           raw_unix0_noted(o, RawObserver_on_data(o, data, f, calls, fail), note, fail)

\* ------------------------------------------------- the proxy's state (proxy.rs)

\* The threads: the listener, and per accepted connection the upstream
\* worker (client to server) and the downstream worker (server to client).
Listener == <<0, "listen">>

NoThread == <<0, "none">>

\* One connection more than MaxConn has its threads, for the runs that
\* look at one connection beside another.
WideConn == MaxConn + 1

Conns == 1..WideConn

Workers == Conns \X {"up", "down"}

Threads == Workers \cup {Listener}

Families == {"inet", "unix"}

ObserverKinds == {"raw", "block", "message"}

\* The variants of Address a server address may be.
AddressKinds == {"Inet", "Unix", "PortOnly"}

\* Address::to_unix and Address::to_inet: the variant of the expansion,
\* "None" where there is none.
to_unix(addr) == IF addr = "Inet" THEN "None" ELSE "Unix"

to_inet(addr) == IF addr = "Unix" THEN "None" ELSE "Inet"

\* What bind, remove_file and the two connects may return.
BindResults == {"ok", "AddrInUse", "PermissionDenied"}

RemoveResults == {"ok", "PermissionDenied"}

UnixConnectResults == {"ok", "NotFound"}

InetConnectResults == {"ok", "ConnectionRefused", "TimedOut"}

\* A variant: the path is removed and bound again after any bind error.
Address_listen_any_error(family, b1, rm, b2) ==
    IF family = "inet"
    THEN [ops |-> << <<"bind", b1>> >>, err |-> IF b1 = "ok" THEN "" ELSE b1]
    ELSE IF b1 = "ok" THEN [ops |-> << <<"bind", b1>> >>, err |-> ""]
    ELSE IF rm # "ok" THEN [ops |-> << <<"bind", b1>>, <<"remove_file", rm>> >>, err |-> rm]
    ELSE [ops |-> << <<"bind", b1>>, <<"remove_file", rm>>, <<"bind", b2>> >>,
          err |-> IF b2 = "ok" THEN "" ELSE b2]

\* Address::listen on an address of the given family, the first bind
\* returning b1, remove_file rm and the second bind b2: the socket
\* operations made, and the error returned ("" for none).
Address_listen(family, b1, rm, b2) ==
    IF family = "inet"
    THEN [ops |-> << <<"bind", b1>> >>, err |-> IF b1 = "ok" THEN "" ELSE b1]
    ELSE IF b1 = "ok" THEN [ops |-> << <<"bind", b1>> >>, err |-> ""]
    ELSE IF b1 # "AddrInUse" THEN [ops |-> << <<"bind", b1>> >>, err |-> b1]
    ELSE IF rm # "ok" THEN [ops |-> << <<"bind", b1>>, <<"remove_file", rm>> >>, err |-> rm]
    ELSE [ops |-> << <<"bind", b1>>, <<"remove_file", rm>>, <<"bind", b2>> >>,
          err |-> IF b2 = "ok" THEN "" ELSE b2]

\* A variant: the TCP expansion is tried first.
connect_inet_first(addr, ur, ir) ==
    IF to_inet(addr) # "None" /\ ir = "ok"
    THEN [ops |-> << <<"connect_inet", ir>> >>, server |-> "inet", err |-> ""]
    ELSE IF to_unix(addr) # "None"
    THEN [ops |-> (IF to_inet(addr) # "None" THEN << <<"connect_inet", ir>> >> ELSE <<>>)
                  \o << <<"connect_unix", ur>> >>,
          server |-> IF ur = "ok" THEN "unix" ELSE "none",
          err |-> IF ur = "ok" THEN "" ELSE ur]
    ELSE [ops |-> << <<"connect_inet", ir>> >>, server |-> "none", err |-> ir]

\* connect(addr), connect_unix returning ur and connect_inet ir: the
\* attempts made, the family of the server connection and the error
\* returned ("" for none).
connect(addr, ur, ir) ==
    IF to_unix(addr) # "None" /\ ur = "ok"
    THEN [ops |-> << <<"connect_unix", ur>> >>, server |-> "unix", err |-> ""]
    ELSE IF to_inet(addr) # "None"
    THEN [ops |-> (IF to_unix(addr) # "None" THEN << <<"connect_unix", ur>> >> ELSE <<>>)
                  \o << <<"connect_inet", ir>> >>,
          server |-> IF ir = "ok" THEN "inet" ELSE "none",
          err |-> IF ir = "ok" THEN "" ELSE ir]
    ELSE [ops |-> << <<"connect_unix", ur>> >>, server |-> "none",
          err |-> "ConnectionRefused"]

\* The side a worker's observer watches.
SideOf(t) == IF t[2] = "up" THEN "Client" ELSE "Server"

\* A thread that has not been spawned.  pc is where the thread is, plan the
\* presenter calls (and lock, unlock) the call in progress has still to
\* make, call the call in progress or the one the thread ended in, ocalls
\* the calls made on the observer, exit how the thread ended; rd the bytes
\* read from the source, fix those of them the fixup read, fed those passed
\* to on_data, wr the bytes written to the peer; ops the socket operations
\* of the listener's latest Address::listen or connect call with their
\* results; err the error the thread has got or returned: for the listener
\* the kind of the error of that call, for a worker "output" when a call on
\* its observer returned the presenter's output error, "read" or "write"
\* for the socket, "InvalidData" for the fixup.
IdleThread ==
    [pc |-> "idle", o |-> Observer_new("raw", "Client"), plan |-> <<>>, call |-> "",
     chunk |-> <<>>, ocalls |-> <<>>, exit |-> "", rd |-> <<>>, wr |-> <<>>,
     fix |-> <<>>, fed |-> <<>>, ops |-> <<>>, err |-> "",
     w_shut |-> FALSE, r_shut |-> FALSE, in_pump |-> FALSE]

\* A connection that has not been accepted: the families of its two ends,
\* whether it has been announced to the presenter, and which of its peers
\* have closed their sending side.
NoConn == [client |-> "none", server |-> "none", announced |-> FALSE, closed |-> {}]

VARIABLES
    th,           \* the threads
    conns,        \* the connections: the families of both ends
    nconn,        \* the connections accepted so far
    mutex,        \* the presenter's mutex: its holder, and whether poisoned
    presenter,    \* the shared TextFormatter
    block_by,     \* the thread that is between start_block and end_block
    budget,       \* the reads and the faults still allowed, and the
                  \* connections allowed in all
    config        \* the listening address' family, the server address'
                  \* variant and the observer kind

pvars == <<th, conns, nconn, mutex, presenter, block_by, budget, config>>

\* The proxy's variables while a lone observer is looked at.
NoProxy ==
    /\ th = [t \in Threads |-> IdleThread]
    /\ conns = [c \in Conns |-> NoConn]
    /\ nconn = 0
    /\ mutex = [holder |-> NoThread, poisoned |-> FALSE]
    /\ presenter = TextFormatter_new
    /\ block_by = NoThread
    /\ budget = [reads |-> 0, faults |-> 0, conns |-> 0]
    /\ config = [listen |-> "inet", forward |-> "Inet", kind |-> "raw"]

\* ------------------------------------------- one observer, fed chunk by chunk

VARIABLES
    observer,   \* the observer, or the bare parser, that is fed
    formatter,  \* the presenter it writes to, with the log of the calls made
    calls,      \* the callback invocations Blocks::process has made
    input,      \* all the bytes fed so far
    status,     \* "open", "closed" (on_close was called), "failed", "panicked"
    clean,      \* no callback has failed yet: the parser has seen all of input
    eof,        \* what describe_eof has last answered
    split       \* input was fed in more than one chunk

ovars == <<observer, formatter, calls, input, status, clean, eof, split>>

\* "parser" is Blocks on its own, driven with a closure that records its calls.
Kinds == {"parser", "block", "message"}

\* The chunks that can still be fed: any bytes, up to MaxLen in all.
Chunks == SeqsOf(Bytes, 1, MaxLen - Len(input))

StatusOf(result) ==
    CASE result = "ok"  -> "open"
      [] result = "err" -> "failed"
      [] OTHER          -> "panicked"

InitObserver ==
    /\ observer \in {Observer_new(k, "Client") : k \in Kinds}
    /\ formatter = TextFormatter_new
    /\ calls = <<>>
    /\ input = <<>>
    /\ status = "open"
    /\ clean = TRUE
    /\ eof = ""
    /\ split = FALSE
    /\ NoProxy

\* The state after Blocks::process on a bare parser has returned r.
Processed(r) ==
    /\ observer' = [observer EXCEPT !.blocks = r.self]
    /\ calls' = r.env.calls
    /\ status' = IF r.result = "panic" THEN "panicked" ELSE "open"
    /\ clean' = (clean /\ r.result = "ok")

\* Blocks::process on a bare parser.  An error of the callback ends this
\* call, not the parser: process can be called again.
Process(data, fail) ==
    /\ observer.kind = "parser"
    /\ status = "open"
    /\ Processed(process(observer.blocks, data, "plain",
                         Env(<<>>, formatter, calls, fail), observer.side))
    /\ input' = input \o data
    /\ split' = (input # <<>>)
    /\ UNCHANGED <<formatter, eof>>
    /\ UNCHANGED pvars

\* Blocks::describe_eof on a bare parser: it changes nothing.
DescribeEof ==
    /\ observer.kind = "parser"
    /\ status = "open"
    /\ eof' = describe_eof(observer.blocks)
    /\ status' = IF eof' = "panic" THEN "panicked" ELSE "open"
    /\ UNCHANGED <<observer, formatter, calls, input, clean, split>>
    /\ UNCHANGED pvars

\* The state after a call on the observer has returned r.
Returned(r, done) ==
    /\ observer' = r.o
    /\ formatter' = r.f
    /\ calls' = r.calls
    /\ status' = IF r.result = "ok" THEN done ELSE StatusOf(r.result)
    /\ clean' = (clean /\ r.result = "ok")

\* on_data of an observer.  A pump that gets an error back drops the
\* observer, so nothing follows a failure.
OnData(data, fail) ==
    /\ observer.kind # "parser"
    /\ status = "open"
    /\ Returned(on_data(observer, data, formatter, calls, fail), "open")
    /\ input' = input \o data
    /\ split' = (input # <<>>)
    /\ UNCHANGED eof
    /\ UNCHANGED pvars

\* on_close of an observer: the pump has read EOF.
OnClose(fail) ==
    /\ observer.kind # "parser"
    /\ status = "open"
    /\ Returned(on_close(observer, formatter, calls, fail), "closed")
    /\ UNCHANGED <<input, eof, split>>
    /\ UNCHANGED pvars

NextObserver ==
    \/ \E data \in Chunks, fail \in FailChoices : Process(data, fail)
    \/ DescribeEof
    \/ \E data \in Chunks, fail \in FailChoices : OnData(data, fail)
    \/ \E fail \in FailChoices : OnClose(fail)

vars == <<ovars, pvars>>

SpecObserver == InitObserver /\ [][NextObserver]_vars


\* ------------------------------------ RawObserver, from the fixup on

\* What the pipeline has consumed or synthesized when it notifies the
\* observer of the fixup: the byte '0', or nothing.
FixupChunks == {<<>>, <<48>>}

\* The note of the notification; "" stands for None.
FixupNotes == {"", "adjust inet->unix socket: insert '0'"}

InitRaw ==
    /\ observer = Observer_new("raw", "Client")
    /\ formatter = TextFormatter_new
    /\ calls = <<>>
    /\ input = <<>>
    /\ status = "open"
    /\ clean = TRUE
    /\ eof = ""
    /\ split = FALSE
    /\ NoProxy

\* on_unix0 of the observer: the pipeline calls it once, ahead of the pump.
\* eof keeps the note that was given.
OnUnix0(data, note, fail) ==
    /\ status = "open"
    /\ formatter.log = <<>>
    /\ Returned(on_unix0(observer, data, note, formatter, calls, fail), "open")
    /\ input' = input \o data
    /\ eof' = note
    /\ UNCHANGED split
    /\ UNCHANGED pvars

NextRaw ==
    \/ \E data \in FixupChunks, note \in FixupNotes, fail \in FailChoices :
           OnUnix0(data, note, fail)
    \/ \E data \in Chunks, fail \in FailChoices : OnData(data, fail)
    \/ \E fail \in FailChoices : OnClose(fail)

SpecRaw == InitRaw /\ [][NextRaw]_vars


\* --------------------------------- one presenter, its output looked at

\* The slices a write may be handed: any bytes, newlines anywhere.
Slices == SeqsOf(DumpBytes, 0, MaxSlice)

\* formatter is the presenter with its output, calls the calls made on it,
\* input the bytes written into blocks, status whether the caller is
\* between start_block and end_block ("inside") or not ("outside").
InitFormatter ==
    /\ observer = Observer_new("parser", "Client")
    /\ formatter = TextOut_new
    /\ calls = <<>>
    /\ input = <<>>
    /\ status = "outside"
    /\ clean = TRUE
    /\ eof = ""
    /\ split = FALSE
    /\ NoProxy

\* The state after a call named op has left the presenter as f.
Presented(op, f) ==
    /\ Len(calls) < MaxCalls
    /\ ~formatter.panicked
    /\ formatter' = f
    /\ calls' = Append(calls, op)
    /\ UNCHANGED <<observer, clean, eof, split>>
    /\ UNCHANGED pvars

PresentConnected ==
    /\ status = "outside"
    /\ Presented("connected", TextFormatter_connected(formatter))
    /\ UNCHANGED <<input, status>>

PresentMessage ==
    /\ status = "outside"
    /\ Presented("message", TextFormatter_message(formatter))
    /\ UNCHANGED <<input, status>>

PresentStartBlock ==
    /\ status = "outside"
    /\ Presented("start_block", TextFormatter_start_block(formatter))
    /\ status' = "inside"
    /\ UNCHANGED input

PresentWrite(buf) ==
    /\ status = "inside"
    /\ Presented("write", TextFormatter_write(formatter, buf))
    /\ input' = input \o buf
    /\ UNCHANGED status

PresentEndBlock ==
    /\ status = "inside"
    /\ Presented("end_block", TextFormatter_end_block(formatter))
    /\ status' = "outside"
    /\ UNCHANGED input

NextFormatter ==
    \/ PresentConnected
    \/ PresentMessage
    \/ PresentStartBlock
    \/ \E buf \in Slices : PresentWrite(buf)
    \/ PresentEndBlock

SpecFormatter == InitFormatter /\ [][NextFormatter]_vars

\* ------------------------------------------------------- the proxy (proxy.rs)

\* The chunks a read returns: a complete last block of one byte, or the
\* header of a block whose payload is still to come.
ProxyChunks == {<<3, 0, 1>>, <<2, 0>>}

\* The first byte of a local-socket client: '0', or something else.
FirstBytes == {48, 49}

\* The fixup notification listen makes on the client observer: the
\* observers take it as on_unix0, with the byte removed (or nothing, when
\* a byte is inserted) and the note.
on_adjustment(o, data, note, f, cs, fail) == on_unix0(o, data, note, f, cs, fail)

\* listen: what the fixup has to do for connection c.
to_remove(c) == conns[c].client = "unix" /\ conns[c].server = "inet"

to_insert(c) == conns[c].client = "inet" /\ conns[c].server = "unix"

\* The presenter an observer call is planned on: the calls it will make
\* are read off its log, and made one by one on the shared presenter.
Scratch == [TextFormatter_new EXCEPT !.force_binary = presenter.force_binary]

\* One planned call, made on the shared presenter.
Exec(f, e, fail) ==
    CASE e.op = "connected"   -> connected(f, fail)
      [] e.op = "message"     -> message(f, e.side, e.text, fail)
      [] e.op = "start_block" -> start_block(f, e.side, e.text, e.n, e.remarks, fail)
      [] e.op = "write"       -> write(f, e.data, e.eol, fail)
      [] e.op = "end_block"   -> end_block(f, fail)

\* A thread that has ended: by returning Ok ("ok"), by returning an error
\* ("err"), or by a panic.
Exited(w, how) ==
    [w EXCEPT !.pc = "done", !.exit = how, !.plan = <<>>, !.chunk = <<>>,
              !.o = Observer_new(@.kind, @.side)]

\* Finished with a pump that reads on after a failed write.
Finished_reads_on(t, w, result) ==
    CASE w.call = "connected" ->
           IF result = "ok" THEN [w EXCEPT !.pc = "spawn"] ELSE Exited(w, "err")
      [] w.call = "on_adjustment" ->
           IF result # "ok" THEN Exited(w, "err")
           ELSE IF to_insert(t[1]) THEN [w EXCEPT !.pc = "fix_write"]
           ELSE [w EXCEPT !.pc = "read", !.in_pump = TRUE]
      [] w.call = "on_data" ->
           IF result = "ok" THEN [w EXCEPT !.pc = "write"] ELSE Exited(w, "err")
      [] w.call = "on_close" ->
           IF result = "ok" THEN Exited([w EXCEPT !.w_shut = TRUE], "ok")
           ELSE Exited(w, "err")
      [] w.call = "on_error_read" -> Exited([w EXCEPT !.w_shut = TRUE], result)
      [] w.call = "on_error_write" ->
           IF result = "ok" THEN [w EXCEPT !.pc = "read"]
           ELSE Exited(w, "err")

\* Finished with a listener that drops the result of connected(..).
Finished_unannounced(t, w, result) ==
    CASE w.call = "connected" -> [w EXCEPT !.pc = "spawn"]
      [] w.call = "on_adjustment" ->
           IF result # "ok" THEN Exited(w, "err")
           ELSE IF to_insert(t[1]) THEN [w EXCEPT !.pc = "fix_write"]
           ELSE [w EXCEPT !.pc = "read", !.in_pump = TRUE]
      [] w.call = "on_data" ->
           IF result = "ok" THEN [w EXCEPT !.pc = "write"] ELSE Exited(w, "err")
      [] w.call = "on_close" ->
           IF result = "ok" THEN Exited([w EXCEPT !.w_shut = TRUE], "ok")
           ELSE Exited(w, "err")
      [] w.call = "on_error_read" -> Exited([w EXCEPT !.w_shut = TRUE], result)
      [] w.call = "on_error_write" ->
           IF result = "ok" THEN Exited([w EXCEPT !.r_shut = TRUE, !.err = "write"], "err")
           ELSE Exited(w, "err")

\* A variant: an error of on_close is dropped, and the pump returns Ok.
Finished_close_forgiven(t, w, result) ==
    CASE w.call = "connected" ->
           IF result = "ok" THEN [w EXCEPT !.pc = "spawn"] ELSE Exited(w, "err")
      [] w.call = "on_adjustment" ->
           IF result # "ok" THEN Exited(w, "err")
           ELSE IF to_insert(t[1]) THEN [w EXCEPT !.pc = "fix_write"]
           ELSE [w EXCEPT !.pc = "read", !.in_pump = TRUE]
      [] w.call = "on_data" ->
           IF result = "ok" THEN [w EXCEPT !.pc = "write"] ELSE Exited(w, "err")
      [] w.call = "on_close" -> Exited([w EXCEPT !.w_shut = TRUE], "ok")
      [] w.call = "on_error_read" -> Exited([w EXCEPT !.w_shut = TRUE], result)
      [] w.call = "on_error_write" ->
           IF result = "ok" THEN Exited([w EXCEPT !.r_shut = TRUE, !.err = "write"], "err")
           ELSE Exited(w, "err")

\* A variant: the chunk is written whatever on_data returned.
Finished_writes_on(t, w, result) ==
    CASE w.call = "connected" ->
           IF result = "ok" THEN [w EXCEPT !.pc = "spawn"] ELSE Exited(w, "err")
      [] w.call = "on_adjustment" ->
           IF result # "ok" THEN Exited(w, "err")
           ELSE IF to_insert(t[1]) THEN [w EXCEPT !.pc = "fix_write"]
           ELSE [w EXCEPT !.pc = "read", !.in_pump = TRUE]
      [] w.call = "on_data" -> [w EXCEPT !.pc = "write"]
      [] w.call = "on_close" ->
           IF result = "ok" THEN Exited([w EXCEPT !.w_shut = TRUE], "ok")
           ELSE Exited(w, "err")
      [] w.call = "on_error_read" -> Exited([w EXCEPT !.w_shut = TRUE], result)
      [] w.call = "on_error_write" ->
           IF result = "ok" THEN Exited([w EXCEPT !.r_shut = TRUE, !.err = "write"], "err")
           ELSE Exited(w, "err")

\* Where a thread goes when the call it was in has returned result.
\*   listen:  connected(..)?  then the workers are spawned
\*   worker:  on_adjustment(..)?  then the byte is written, or the pump starts
\*   pump:    on_data(..)?  then write_all
\*            on_close()?  then w.shutdown(), return Ok
\*            on_error(reading): w.shutdown(), return its result
\*            on_error(writing)?  then r.shutdown(), return the write error
Finished(t, w, result) ==
    CASE w.call = "connected" ->
           IF result = "ok" THEN [w EXCEPT !.pc = "spawn"] ELSE Exited(w, "err")
      [] w.call = "on_adjustment" ->
           IF result # "ok" THEN Exited(w, "err")
           ELSE IF to_insert(t[1]) THEN [w EXCEPT !.pc = "fix_write"]
           ELSE [w EXCEPT !.pc = "read", !.in_pump = TRUE]
      [] w.call = "on_data" ->
           IF result = "ok" THEN [w EXCEPT !.pc = "write"] ELSE Exited(w, "err")
      [] w.call = "on_close" ->
           IF result = "ok" THEN Exited([w EXCEPT !.w_shut = TRUE], "ok")
           ELSE Exited(w, "err")
      [] w.call = "on_error_read" -> Exited([w EXCEPT !.w_shut = TRUE], result)
      [] w.call = "on_error_write" ->
           IF result = "ok" THEN Exited([w EXCEPT !.r_shut = TRUE, !.err = "write"], "err")
           ELSE Exited(w, "err")

\* A thread that starts a call whose presenter calls are plan.  A call
\* without presenter calls has returned at once.
Calling(t, w, name, plan) ==
    IF plan = <<>> THEN Finished(t, [w EXCEPT !.call = name], "ok")
    ELSE [w EXCEPT !.call = name, !.plan = plan, !.pc = "plan"]

\* A worker that calls its observer: the call is recorded, the observer
\* takes its new state, the presenter calls are still to be made.
Observing(t, w, name, r) ==
    Calling(t, [w EXCEPT !.o = r.o, !.ocalls = Append(@, name)], name, r.f.log)

\* A lock that does not wait for the guard to be dropped.
may_lock_always(m, t) == TRUE

\* A variant: the whole buffer is written, not the part that was read.
forwarded_stale(chunk, n) == SubSeq(chunk \o <<0>>, 1, IF n = Len(chunk) THEN n + 1 ELSE n)

\* pump: the bytes write_all(&buffer[0..nread]) has written when it got n
\* bytes out.
forwarded(chunk, n) == SubSeq(chunk, 1, n)

\* Mutex::lock blocks while another thread holds the guard.
may_lock(m, t) == m.holder = NoThread

\* The proxy as spawn_listener starts it, with budget b and a
\* configuration out of cfgs.
InitWith(b, cfgs) ==
    /\ observer = Observer_new("parser", "Client")
    /\ formatter = TextFormatter_new
    /\ calls = <<>>
    /\ input = <<>>
    /\ status = "open"
    /\ clean = TRUE
    /\ eof = ""
    /\ split = FALSE
    /\ th = [t \in Threads |-> IF t = Listener THEN [IdleThread EXCEPT !.pc = "listen"]
                               ELSE IdleThread]
    /\ conns = [c \in Conns |-> NoConn]
    /\ nconn = 0
    /\ mutex = [holder |-> NoThread, poisoned |-> FALSE]
    /\ presenter = TextFormatter_new
    /\ block_by = NoThread
    /\ budget = b
    /\ config \in cfgs

InitProxy ==
    InitWith([reads |-> MaxReads, faults |-> MaxFaults, conns |-> MaxConn],
             [listen : Families, forward : AddressKinds, kind : ObserverKinds])

\* listen: addr.listen()? has bound the address, or listen returns its error.
Listen(b1, rm, b2) ==
    /\ th[Listener].pc = "listen"
    /\ th' = [th EXCEPT ![Listener] =
                IF Address_listen(config.listen, b1, rm, b2).err = ""
                THEN [@ EXCEPT !.pc = "accept",
                               !.ops = Address_listen(config.listen, b1, rm, b2).ops]
                ELSE Exited([@ EXCEPT !.call = "listen",
                                      !.ops = Address_listen(config.listen, b1, rm, b2).ops,
                                      !.err = Address_listen(config.listen, b1, rm, b2).err],
                            "err")]
    /\ UNCHANGED <<conns, nconn, mutex, presenter, block_by, budget, config>>
    /\ UNCHANGED ovars

\* listen: accepter() returns a client.
Accept ==
    /\ th[Listener].pc = "accept"
    /\ nconn < budget.conns
    /\ nconn' = nconn + 1
    /\ conns' = [conns EXCEPT ![nconn + 1].client = config.listen]
    /\ th' = [th EXCEPT ![Listener].pc = "connect"]
    /\ UNCHANGED <<mutex, presenter, block_by, budget, config>>
    /\ UNCHANGED ovars

\* listen: accepter()? fails, and listen returns the error.
AcceptFails ==
    /\ th[Listener].pc = "accept"
    /\ budget.faults > 0
    /\ budget' = [budget EXCEPT !.faults = @ - 1]
    /\ th' = [th EXCEPT ![Listener] = Exited(@, "err")]
    /\ UNCHANGED <<conns, nconn, mutex, presenter, block_by, config>>
    /\ UNCHANGED ovars

\* listen: connect(&forward_to) reaches the server; the connected(..) call
\* under the guard is next.
Connect(ur, ir) ==
    /\ th[Listener].pc = "connect"
    /\ connect(config.forward, ur, ir).err = ""
    /\ conns' = [conns EXCEPT ![nconn].server = connect(config.forward, ur, ir).server]
    /\ th' = [th EXCEPT ![Listener] =
                Calling(Listener, [@ EXCEPT !.ops = connect(config.forward, ur, ir).ops],
                        "connected",
                        <<LockEntry, Entry("connected", "", "", 0, <<>>, <<>>, TRUE),
                          UnlockEntry>>)]
    /\ UNCHANGED <<nconn, mutex, presenter, block_by, budget, config>>
    /\ UNCHANGED ovars

\* listen: connect(&forward_to)? fails, and listen returns the error.
ConnectFails(ur, ir) ==
    /\ th[Listener].pc = "connect"
    /\ connect(config.forward, ur, ir).err # ""
    /\ budget.faults > 0
    /\ budget' = [budget EXCEPT !.faults = @ - 1]
    /\ th' = [th EXCEPT ![Listener] =
                Exited([@ EXCEPT !.call = "connect",
                                 !.ops = connect(config.forward, ur, ir).ops,
                                 !.err = connect(config.forward, ur, ir).err], "err")]
    /\ UNCHANGED <<conns, nconn, mutex, presenter, block_by, config>>
    /\ UNCHANGED ovars

\* listen: make_inspector twice, then the two workers are spawned.  The
\* downstream worker is its pump; the upstream worker starts with the fixup.
Spawn ==
    /\ th[Listener].pc = "spawn"
    /\ th' = [th EXCEPT
                ![Listener].pc = "accept",
                ![<<nconn, "down">>] =
                    [IdleThread EXCEPT !.o = Observer_new(config.kind, "Server"),
                                       !.pc = "read", !.in_pump = TRUE],
                ![<<nconn, "up">>] =
                    [IdleThread EXCEPT !.o = Observer_new(config.kind, "Client"),
                                       !.pc = IF to_remove(nconn) THEN "fix_read"
                                              ELSE IF to_insert(nconn) THEN "fix_notify"
                                              ELSE "read",
                                       !.in_pump = ~to_remove(nconn) /\ ~to_insert(nconn)]]
    /\ UNCHANGED <<conns, nconn, mutex, presenter, block_by, budget, config>>
    /\ UNCHANGED ovars

\* Upstream worker, to_remove: read_exact of one byte returned b.  '0' is
\* swallowed and the observer told; any other byte is InvalidData.
FixRead(t, b) ==
    /\ th[t].pc = "fix_read"
    /\ th' = [th EXCEPT ![t] =
                IF b = 48
                THEN Observing(t, [@ EXCEPT !.rd = <<b>>, !.fix = <<b>>], "on_adjustment",
                               on_adjustment(@.o, <<b>>,
                                             "adjust unix->inet socket: remove leading '0'",
                                             Scratch, <<>>, NoFail))
                ELSE Exited([@ EXCEPT !.rd = <<b>>, !.fix = <<b>>, !.call = "invalid_data",
                                      !.err = "InvalidData"], "err")]
    /\ UNCHANGED <<conns, nconn, mutex, presenter, block_by, budget, config>>
    /\ UNCHANGED ovars

\* Upstream worker, to_remove: read_exact fails (an error, or EOF).
FixReadFails(t) ==
    /\ th[t].pc = "fix_read"
    /\ budget.faults > 0
    /\ budget' = [budget EXCEPT !.faults = @ - 1]
    /\ th' = [th EXCEPT ![t] = Exited([@ EXCEPT !.err = "read"], "err")]
    /\ UNCHANGED <<conns, nconn, mutex, presenter, block_by, config>>
    /\ UNCHANGED ovars

\* Upstream worker, to_insert: the observer is told first.
FixNotify(t) ==
    /\ th[t].pc = "fix_notify"
    /\ th' = [th EXCEPT ![t] =
                Observing(t, @, "on_adjustment",
                          on_adjustment(@.o, <<>>, "adjust inet->unix socket: insert '0'",
                                        Scratch, <<>>, NoFail))]
    /\ UNCHANGED <<conns, nconn, mutex, presenter, block_by, budget, config>>
    /\ UNCHANGED ovars

\* Upstream worker, to_insert: write_all(b"0") and flush, then the pump.
FixWrite(t, ok) ==
    /\ th[t].pc = "fix_write"
    /\ ~ok => budget.faults > 0
    /\ budget' = [budget EXCEPT !.faults = IF ok THEN @ ELSE @ - 1]
    /\ th' = [th EXCEPT ![t] =
                IF ok THEN [@ EXCEPT !.wr = <<48>>, !.pc = "read", !.in_pump = TRUE]
                ELSE Exited([@ EXCEPT !.err = "write"], "err")]
    /\ UNCHANGED <<conns, nconn, mutex, presenter, block_by, config>>
    /\ UNCHANGED ovars

\* What a read of worker t may return.  A local-socket client sends its
\* first byte ahead of its blocks: unless the fixup has read that byte, the
\* upstream pump's first read returns it, with the bytes that follow.
Incoming(t) ==
    IF t[2] = "up" /\ conns[t[1]].client = "unix" /\ th[t].rd = <<>>
    THEN {<<b>> \o chunk : b \in FirstBytes, chunk \in ProxyChunks}
    ELSE ProxyChunks

\* pump: r.read returned a chunk; on_data is called with it.
ReadData(t, chunk) ==
    /\ th[t].pc = "read"
    /\ budget.reads > 0
    /\ budget' = [budget EXCEPT !.reads = @ - 1]
    /\ th' = [th EXCEPT ![t] =
                Observing(t, [@ EXCEPT !.chunk = chunk, !.rd = @ \o chunk,
                                       !.fed = @ \o chunk], "on_data",
                          on_data(@.o, chunk, Scratch, <<>>, NoFail))]
    /\ UNCHANGED <<conns, nconn, mutex, presenter, block_by, config>>
    /\ UNCHANGED ovars

\* A variant: a read of no bytes is not told from any other, and the pump
\* reads again.
pump_eof_reads_on(t, w) == w

\* pump, the arm of Ok(0): worker t in state w calls on_close.
pump_eof(t, w) == Observing(t, w, "on_close", on_close(w.o, Scratch, <<>>, NoFail))

\* pump: r.read returned Ok(0); on_close is called.
ReadEof(t) ==
    /\ th[t].pc = "read"
    /\ th' = [th EXCEPT ![t] = pump_eof(t, @)]
    /\ UNCHANGED <<conns, nconn, mutex, presenter, block_by, budget, config>>
    /\ UNCHANGED ovars

\* pump: r.read returned an error; on_error is called.
ReadFails(t) ==
    /\ th[t].pc = "read"
    /\ budget.faults > 0
    /\ budget' = [budget EXCEPT !.faults = @ - 1]
    /\ th' = [th EXCEPT ![t] =
                Observing(t, @, "on_error_read",
                          on_error(@.o, FALSE, Scratch, <<>>, NoFail))]
    /\ UNCHANGED <<conns, nconn, mutex, presenter, block_by, config>>
    /\ UNCHANGED ovars

\* pump: w.write_all of the chunk gets n of its bytes out.  With all of
\* them out the pump reads on; if it fails before that on_error is called.
Write(t, n) ==
    /\ th[t].pc = "write"
    /\ n < Len(th[t].chunk) => budget.faults > 0
    /\ budget' = [budget EXCEPT !.faults = IF n = Len(th[t].chunk) THEN @ ELSE @ - 1]
    /\ th' = [th EXCEPT ![t] =
                IF n = Len(th[t].chunk)
                THEN [@ EXCEPT !.wr = @ \o forwarded(th[t].chunk, n), !.pc = "read"]
                ELSE Observing(t, [@ EXCEPT !.wr = @ \o forwarded(th[t].chunk, n)],
                               "on_error_write",
                               on_error(@.o, TRUE, Scratch, <<>>, NoFail))]
    /\ UNCHANGED <<conns, nconn, mutex, presenter, block_by, config>>
    /\ UNCHANGED ovars

\* formatter.lock().unwrap(): the guard is taken when no thread holds it; a
\* poisoned mutex makes unwrap panic.
Lock(t) ==
    /\ th[t].pc = "plan"
    /\ Head(th[t].plan).op = "lock"
    /\ may_lock(mutex, t)
    /\ IF mutex.poisoned
       THEN /\ th' = [th EXCEPT ![t] = Exited(@, "panic")]
            /\ UNCHANGED mutex
       ELSE /\ th' = [th EXCEPT ![t].plan = Tail(@)]
            /\ mutex' = [mutex EXCEPT !.holder = t]
    /\ UNCHANGED <<conns, nconn, presenter, block_by, budget, config>>
    /\ UNCHANGED ovars

\* The guard is dropped; the call in progress returns if that was its end.
Unlock(t) ==
    /\ th[t].pc = "plan"
    /\ Head(th[t].plan).op = "unlock"
    /\ mutex' = [mutex EXCEPT !.holder = NoThread]
    /\ th' = [th EXCEPT ![t] =
                IF Tail(@.plan) = <<>> THEN Finished(t, [@ EXCEPT !.plan = <<>>], "ok")
                ELSE [@ EXCEPT !.plan = Tail(@)]]
    /\ UNCHANGED <<conns, nconn, presenter, block_by, budget, config>>
    /\ UNCHANGED ovars

\* The state after thread t has made the presenter call e and got r: on
\* success the next planned call follows; an error makes the call in
\* progress return it, dropping the guard; a panic ends the thread and
\* poisons the guard it holds.
Called(t, e, r) ==
    /\ presenter' = [r.f EXCEPT !.log = <<>>]
    /\ block_by' = IF e.op = "start_block" /\ r.result = "ok" THEN t
                   ELSE IF block_by = t /\ (e.op = "end_block" \/ r.result # "ok")
                   THEN NoThread
                   ELSE block_by
    /\ budget' = [budget EXCEPT !.faults = IF r.result = "err" THEN @ - 1 ELSE @]
    /\ conns' = IF e.op = "connected" /\ r.result = "ok"
                THEN [conns EXCEPT ![nconn].announced = TRUE] ELSE conns
    /\ mutex' = IF r.result = "ok" \/ mutex.holder # t THEN mutex
                ELSE [holder |-> NoThread,
                      poisoned |-> mutex.poisoned \/ r.result = "panic"]
    /\ th' = [th EXCEPT ![t] =
                CASE r.result = "ok" ->
                       IF Tail(@.plan) = <<>> THEN Finished(t, [@ EXCEPT !.plan = <<>>], "ok")
                       ELSE [@ EXCEPT !.plan = Tail(@)]
                  [] r.result = "err" ->
                       Finished(t, [@ EXCEPT !.plan = <<>>, !.err = "output"], "err")
                  [] OTHER -> Exited(@, "panic")]

\* A thread makes the next presenter call of the call it is in; its output
\* may fail.
Call(t, fail) ==
    /\ th[t].pc = "plan"
    /\ Head(th[t].plan).op \notin {"lock", "unlock"}
    /\ fail => budget.faults > 0
    /\ Called(t, Head(th[t].plan), Exec(presenter, Head(th[t].plan), fail))
    /\ UNCHANGED <<nconn, config>>
    /\ UNCHANGED ovars

NextProxy ==
    \/ \E b1, b2 \in BindResults, rm \in RemoveResults : Listen(b1, rm, b2)
    \/ Accept
    \/ AcceptFails
    \/ \E ur \in UnixConnectResults, ir \in InetConnectResults : Connect(ur, ir)
    \/ \E ur \in UnixConnectResults, ir \in InetConnectResults : ConnectFails(ur, ir)
    \/ Spawn
    \/ \E t \in Workers, b \in FirstBytes : FixRead(t, b)
    \/ \E t \in Workers : FixReadFails(t)
    \/ \E t \in Workers : FixNotify(t)
    \/ \E t \in Workers, ok \in BOOLEAN : FixWrite(t, ok)
    \/ \E t \in Workers : \E chunk \in Incoming(t) : ReadData(t, chunk)
    \/ \E t \in Workers : ReadEof(t)
    \/ \E t \in Workers : ReadFails(t)
    \/ \E t \in Workers : \E n \in 0..Len(th[t].chunk) : Write(t, n)
    \/ \E t \in Threads : Lock(t)
    \/ \E t \in Threads : Unlock(t)
    \/ \E t \in Threads, fail \in BOOLEAN : Call(t, fail)

SpecProxy == InitProxy /\ [][NextProxy]_vars

\* The proxy with one connection more, fewer reads and faults, block
\* observers, and a server address that expands to both families.
InitWide ==
    InitWith([reads |-> MaxReads - 1, faults |-> MaxFaults - 1, conns |-> WideConn],
             [listen : Families, forward : {"PortOnly"}, kind : {"block"}])

SpecWide == InitWide /\ [][NextProxy]_vars

\* The listener thread by itself: Address::listen, then the loop of
\* accept, connect, connected(..) and the spawning of the workers.
NextListener ==
    \/ \E b1, b2 \in BindResults, rm \in RemoveResults : Listen(b1, rm, b2)
    \/ Accept
    \/ AcceptFails
    \/ \E ur \in UnixConnectResults, ir \in InetConnectResults : Connect(ur, ir)
    \/ \E ur \in UnixConnectResults, ir \in InetConnectResults : ConnectFails(ur, ir)
    \/ Spawn
    \/ Lock(Listener)
    \/ Unlock(Listener)
    \/ \E fail \in BOOLEAN : Call(Listener, fail)

SpecListener == InitProxy /\ [][NextListener]_vars

\* ---------------------------------------- the proxy between its two peers

\* The peer worker t reads from, the peer it writes to, and the worker of
\* the other direction of its connection.
Source(t) == IF t[2] = "up" THEN "client" ELSE "server"

Target(t) == IF t[2] = "up" THEN "server" ELSE "client"

Opposite(t) == <<t[1], IF t[2] = "up" THEN "down" ELSE "up">>

\* A peer of an established connection closes its sending side, of its
\* own accord or after it has seen EOF.
PeerCloses(c, side) ==
    /\ conns[c].server # "none"
    /\ side \notin conns[c].closed
    /\ conns' = [conns EXCEPT ![c].closed = @ \cup {side}]
    /\ UNCHANGED <<th, nconn, mutex, presenter, block_by, budget, config>>
    /\ UNCHANGED ovars

\* pump: the source has closed its sending side, and r.read returns Ok(0).
PeerEof(t) ==
    /\ Source(t) \in conns[t[1]].closed
    /\ ReadEof(t)

\* Upstream worker, to_remove: the client has closed its sending side, and
\* read_exact fails with UnexpectedEof.
FixReadEof(t) ==
    /\ th[t].pc = "fix_read"
    /\ Source(t) \in conns[t[1]].closed
    /\ th' = [th EXCEPT ![t] = Exited([@ EXCEPT !.err = "read"], "err")]
    /\ UNCHANGED <<conns, nconn, mutex, presenter, block_by, budget, config>>
    /\ UNCHANGED ovars

\* The proxy and its peers: a read returns EOF only after the peer has
\* closed its sending side.
NextLive ==
    \/ \E b1, b2 \in BindResults, rm \in RemoveResults : Listen(b1, rm, b2)
    \/ Accept
    \/ AcceptFails
    \/ \E ur \in UnixConnectResults, ir \in InetConnectResults : Connect(ur, ir)
    \/ \E ur \in UnixConnectResults, ir \in InetConnectResults : ConnectFails(ur, ir)
    \/ Spawn
    \/ \E t \in Workers, b \in FirstBytes : FixRead(t, b)
    \/ \E t \in Workers : FixReadFails(t)
    \/ \E t \in Workers : FixReadEof(t)
    \/ \E t \in Workers : FixNotify(t)
    \/ \E t \in Workers, ok \in BOOLEAN : FixWrite(t, ok)
    \/ \E t \in Workers : \E chunk \in Incoming(t) : ReadData(t, chunk)
    \/ \E t \in Workers : PeerEof(t)
    \/ \E t \in Workers : ReadFails(t)
    \/ \E t \in Workers : \E n \in 0..Len(th[t].chunk) : Write(t, n)
    \/ \E t \in Threads : Lock(t)
    \/ \E t \in Threads : Unlock(t)
    \/ \E t \in Threads, fail \in BOOLEAN : Call(t, fail)
    \/ \E c \in Conns, side \in {"client", "server"} : PeerCloses(c, side)

\* The steps thread t takes by itself once it can: a thread that is not
\* blocked is scheduled, a write_all returns, and a read returns once its
\* source has closed.  Data, read errors and new clients arrive or do not.
Runs(t) ==
    \/ Lock(t)
    \/ Unlock(t)
    \/ \E fail \in BOOLEAN : Call(t, fail)
    \/ t = Listener /\ Spawn
    \/ t \in Workers /\ FixNotify(t)
    \/ t \in Workers /\ \E ok \in BOOLEAN : FixWrite(t, ok)
    \/ t \in Workers /\ \E n \in 0..Len(th[t].chunk) : Write(t, n)
    \/ t \in Workers /\ PeerEof(t)
    \/ t \in Workers /\ FixReadEof(t)

InitLive ==
    InitWith([reads |-> MaxReads - 1, faults |-> MaxFaults - 1, conns |-> MaxConn],
             [listen : Families, forward : {"PortOnly"}, kind : {"block"}])

SpecLive == InitLive /\ [][NextLive]_vars /\ \A t \in Threads : WF_vars(Runs(t))

\* --------------------------------------------------- the wire format (spec)

\* The blocks of a byte stream, read off the stream as a whole: a header H
\* of two bytes, little-endian, then H >> 1 bytes of payload; H & 1 marks
\* the last block of a message.  A block that is not complete is left out.
HeaderAt(s) == s[1] + 256 * s[2]

RECURSIVE BlocksOf(_)
BlocksOf(s) ==
    IF Len(s) < 2 \/ Len(s) < 2 + (HeaderAt(s) \div 2) THEN <<>>
    ELSE <<Invocation(SubSeq(s, 3, 2 + (HeaderAt(s) \div 2)), HeaderAt(s) % 2 = 1)>>
         \o BlocksOf(SubSeq(s, 3 + (HeaderAt(s) \div 2), Len(s)))

\* The bytes of s that follow its last complete block.
RECURSIVE ResidueOf(_)
ResidueOf(s) ==
    IF Len(s) < 2 \/ Len(s) < 2 + (HeaderAt(s) \div 2) THEN s
    ELSE ResidueOf(SubSeq(s, 3 + (HeaderAt(s) \div 2), Len(s)))

\* The messages a sequence of blocks makes, and the payloads after the
\* last complete message.
RECURSIVE MessagesOf(_, _)
MessagesOf(blocks, acc) ==
    IF blocks = <<>> THEN <<>>
    ELSE IF Head(blocks).is_last
    THEN <<acc \o Head(blocks).payload>> \o MessagesOf(Tail(blocks), <<>>)
    ELSE MessagesOf(Tail(blocks), acc \o Head(blocks).payload)

RECURSIVE PendingOf(_, _)
PendingOf(blocks, acc) ==
    IF blocks = <<>> THEN acc
    ELSE IF Head(blocks).is_last THEN PendingOf(Tail(blocks), <<>>)
    ELSE PendingOf(Tail(blocks), acc \o Head(blocks).payload)

\* The blocks a presenter log shows: for every start_block the remarks, the
\* bytes written before the next call that is no write, and whether
\* end_block closed it.
RECURSIVE WrittenIn(_)
WrittenIn(log) ==
    IF log = <<>> \/ Head(log).op # "write" THEN <<>>
    ELSE Head(log).data \o WrittenIn(Tail(log))

RECURSIVE EndsBlock(_)
EndsBlock(log) ==
    IF log = <<>> THEN FALSE
    ELSE IF Head(log).op = "write" THEN EndsBlock(Tail(log))
    ELSE Head(log).op = "end_block" /\ Head(log).ok

RECURSIVE PresenterBlocks(_)
PresenterBlocks(log) ==
    IF log = <<>> THEN <<>>
    ELSE IF Head(log).op = "start_block"
    THEN <<[side |-> Head(log).side, n |-> Head(log).n,
            remarks |-> Head(log).remarks,
            data |-> WrittenIn(Tail(log)), ended |-> EndsBlock(Tail(log))]>>
         \o PresenterBlocks(Tail(log))
    ELSE PresenterBlocks(Tail(log))

IsPresenterCall(e) == e.op \notin {"lock", "unlock"}

IsMessageCall(e) == e.op = "message"

\* ------------------------------------------------------ claims on the parser

\* Blocks::process on a fresh parser, the whole stream in one chunk, with a
\* callback that always succeeds: the invocations made.
OneShot(data) ==
    process(Blocks_new, data, "plain", Env(<<>>, TextFormatter_new, <<>>, NoFail),
            "Client").env.calls

\* C1 (total reassembly): however the bytes fed so far were split into
\* chunks, as long as every callback succeeded the callback invocations
\* made (payload, is_last) are those of feeding the same bytes to a fresh
\* parser in one process call.
C1_TotalReassembly == clean => calls = OneShot(input)

\* The stream went in as several chunks, one of them ending inside a block,
\* and blocks were delivered on both sides of that cut.
C1_Witness ==
    /\ observer.kind = "parser" /\ clean /\ split
    /\ Len(calls) >= 2
    /\ observer.blocks.buffer # <<>>

\* C2 (header decoding): with every callback succeeding, the callback has
\* been invoked exactly once per complete block of the stream, in order,
\* with the H >> 1 bytes that follow the block's little-endian header H as
\* payload and with is_last = (H & 1 = 1).
C2_HeaderDecoding == clean => calls = BlocksOf(input)

\* Blocks of both kinds were delivered: one with a payload, one marked last.
C2_Witness ==
    /\ clean
    /\ \E i \in 1..Len(calls) : calls[i].payload # <<>> /\ ~calls[i].is_last
    /\ \E i \in 1..Len(calls) : calls[i].is_last

\* The stream so far is whole blocks followed by the two header bytes of an
\* empty block (H >> 1 = 0).
EndsInEmptyBlock ==
    /\ Len(input) >= 2
    /\ ResidueOf(SubSeq(input, 1, Len(input) - 2)) = <<>>
    /\ HeaderAt(SubSeq(input, Len(input) - 1, Len(input))) \div 2 = 0

\* C3 (empty block): as soon as the two header bytes of an empty block have
\* been consumed, and no further byte, the callback has been invoked once
\* more, with an empty payload and is_last = (H & 1 = 1), and the parser is
\* back in its initial state: empty buffer, goal = 2.
C3_EmptyBlock ==
    (clean /\ EndsInEmptyBlock) =>
        /\ Len(calls) = Len(BlocksOf(SubSeq(input, 1, Len(input) - 2))) + 1
        /\ Last(calls) =
             Invocation(<<>>, HeaderAt(SubSeq(input, Len(input) - 1, Len(input))) = 1)
        /\ observer.blocks.buffer = <<>>
        /\ observer.blocks.goal = 2

\* The empty terminator 0x0001 has just been consumed, after another block,
\* its two bytes in different chunks.
C3_Witness ==
    /\ clean /\ split /\ EndsInEmptyBlock
    /\ Len(calls) >= 2
    /\ Last(calls) = Invocation(<<>>, TRUE)

\* C4 (parser invariant): between calls the parser has buffer.len() < goal
\* and goal >= 2, whatever the chunks were and whether or not a callback
\* failed; no assertion of process or describe_eof has failed.
C4_ParserInvariant ==
    /\ Len(observer.blocks.buffer) < observer.blocks.goal
    /\ observer.blocks.goal >= 2
    /\ status # "panicked"
    /\ eof # "panic"

\* A callback has failed, and the parser went on to take more bytes and to
\* answer describe_eof.
C4_Witness ==
    /\ observer.kind = "parser" /\ ~clean
    /\ observer.blocks.buffer # <<>>
    /\ eof = "eof on incomplete block body"

\* ---------------------------------------------------- claims on the observers

\* C5 (message reassembly): a MessageObserver whose presenter calls all
\* succeeded has rendered exactly one presenter block per complete message
\* of the stream, each closed by end_block and holding the concatenation of
\* the payloads of the message's blocks; nothing is rendered for the blocks
\* of a message whose last block has not come, their payloads are in the
\* reassembly buffer, and the buffer is empty once a message is complete.
C5_MessageReassembly ==
    (observer.kind = "message" /\ clean /\ status = "open") =>
        /\ Len(PresenterBlocks(formatter.log)) = Len(MessagesOf(BlocksOf(input), <<>>))
        /\ \A i \in 1..Len(PresenterBlocks(formatter.log)) :
             /\ PresenterBlocks(formatter.log)[i].data = MessagesOf(BlocksOf(input), <<>>)[i]
             /\ PresenterBlocks(formatter.log)[i].n = Len(MessagesOf(BlocksOf(input), <<>>)[i])
             /\ PresenterBlocks(formatter.log)[i].ended
        /\ observer.message = PendingOf(BlocksOf(input), <<>>)

\* A message of two blocks, the first with a payload, came in several
\* chunks and was rendered; the reassembly buffer is empty again.
C5_Witness ==
    /\ observer.kind = "message" /\ clean /\ split /\ status = "open"
    /\ Len(calls) = 2 /\ ~calls[1].is_last /\ calls[1].payload # <<>> /\ calls[2].is_last
    /\ Len(PresenterBlocks(formatter.log)) = 1
    /\ observer.message = <<>>

\* The remark BlockObserver puts on a block.
RemarkOf(is_last) == IF is_last THEN "ends the message" ELSE "does not end the message"

\* C6: a BlockObserver whose presenter calls all succeeded has rendered
\* exactly one presenter block per block the parser delivered, in stream
\* order, each with that block's payload alone and with the remark "ends
\* the message" if its last bit is set, "does not end the message" if not.
C6_BlockPerBlock ==
    (observer.kind = "block" /\ clean /\ status = "open") =>
        /\ Len(PresenterBlocks(formatter.log)) = Len(calls)
        /\ \A i \in 1..Len(calls) :
             /\ PresenterBlocks(formatter.log)[i].data = calls[i].payload
             /\ PresenterBlocks(formatter.log)[i].remarks = <<RemarkOf(calls[i].is_last)>>
             /\ PresenterBlocks(formatter.log)[i].ended

\* Two blocks, the first with a payload and not ending the message, the
\* second ending it, were rendered.
C6_Witness ==
    /\ observer.kind = "block" /\ clean /\ status = "open"
    /\ Len(calls) = 2 /\ ~calls[1].is_last /\ calls[2].is_last
    /\ calls[1].payload # <<>>
    /\ Len(PresenterBlocks(formatter.log)) = 2

\* C7 (EOF description): once on_close of a BlockObserver or a
\* MessageObserver has returned, the presenter has been sent exactly one
\* one-line message, as its last call, and its text is chosen by the bytes
\* left in the parser buffer: none, one, or two and more.
C7_EofDescription ==
    status = "closed" =>
        /\ Len(SelectSeq(formatter.log, IsMessageCall)) = 1
        /\ Last(SelectSeq(formatter.log, IsPresenterCall)).op = "message"
        /\ Last(SelectSeq(formatter.log, IsPresenterCall)).side = observer.side
        /\ Last(SelectSeq(formatter.log, IsPresenterCall)).text =
             CASE Len(observer.blocks.buffer) = 0 -> "closed its side of the connection"
               [] Len(observer.blocks.buffer) = 1 -> "eof on incomplete block header"
               [] OTHER -> "eof on incomplete block body"

\* on_close came after several on_data calls that left a block body
\* unfinished.
C7_Witness ==
    /\ status = "closed" /\ split
    /\ Len(observer.blocks.buffer) >= 3
    /\ calls # <<>>

\* -------------------------------------------------------- claims on the proxy

IsPumpCall(name) == name # "on_adjustment"

IsTerminalCall(name) == name \in {"on_close", "on_error_read", "on_error_write"}

\* The calls the pump of worker t has made on its observer; the fixup
\* notification is made by the worker before its pump starts.
PumpCalls(t) == SelectSeq(th[t].ocalls, IsPumpCall)

\* Every call of pump t but the last one made is on_data.
OnDataThenTerminal(t) ==
    \A i \in 1..(Len(PumpCalls(t)) - 1) : PumpCalls(t)[i] = "on_data"

\* The pump of worker t has terminated.
PumpEnded(t) == th[t].in_pump /\ th[t].pc = "done"

\* C8 as stated: the calls of every pump are on_data calls followed by one
\* terminal call, on_close or on_error, and a pump that has terminated has
\* made its terminal call.
C8_Original ==
    \A t \in Workers :
        /\ OnDataThenTerminal(t)
        /\ PumpEnded(t) =>
             (PumpCalls(t) # <<>> /\ IsTerminalCall(Last(PumpCalls(t))))

\* C8 (callback ordering, amended): the calls of every pump are on_data
\* calls followed by at most one terminal call, on_close or on_error, which
\* is the last call the pump makes; a pump that has terminated has made its
\* terminal call, unless its last on_data call failed (it returned an error
\* or panicked): that pump has terminated without a terminal call.
C8_Amended ==
    \A t \in Workers :
        /\ OnDataThenTerminal(t)
        /\ PumpEnded(t) =>
             IF th[t].call = "on_data"
             THEN /\ th[t].exit \in {"err", "panic"}
                  /\ Last(PumpCalls(t)) = "on_data"
             ELSE /\ PumpCalls(t) # <<>>
                  /\ IsTerminalCall(Last(PumpCalls(t)))
                  /\ th[t].call = Last(PumpCalls(t))

\* One pump has ended after on_data and on_close, the other after an
\* on_data call that failed.
C8_Witness ==
    \E t, u \in Workers :
        /\ PumpEnded(t) /\ PumpCalls(t) = <<"on_data", "on_close">>
        /\ PumpEnded(u) /\ th[u].call = "on_data" /\ th[u].exit = "err"

\* C9: a worker of a connection that has made an observer call, the fixup
\* notification included, or has started at all, belongs to a connection
\* whose connected(..) call has been made on the presenter.
C9_ConnectedFirst ==
    \A t \in Workers :
        (th[t].pc # "idle" \/ th[t].ocalls # <<>>) => conns[t[1]].announced

\* Both workers of a connection have called their observers, the upstream
\* one starting with the fixup notification.
C9_Witness ==
    \E c \in Conns :
        /\ conns[c].announced
        /\ th[<<c, "up">>].ocalls # <<>>
        /\ Head(th[<<c, "up">>].ocalls) = "on_adjustment"
        /\ Len(th[<<c, "up">>].ocalls) >= 2
        /\ th[<<c, "down">>].ocalls # <<>>

\* Thread t is about to make a presenter call, or to drop the guard.
InPresenter(t) == th[t].pc = "plan" /\ Head(th[t].plan).op # "lock"

\* C10 (presenter serialization): a thread that is about to make a
\* presenter call holds the presenter's mutex, and while a block is open,
\* between a start_block and its end_block, the mutex is held by the thread
\* that opened it: so no other thread makes a presenter call in between.
C10_Serialized ==
    /\ \A t \in Threads : InPresenter(t) => mutex.holder = t
    /\ block_by # NoThread => (mutex.holder = block_by /\ InPresenter(block_by))

\* One pump is inside a block it opened while the other pump waits for the
\* guard, having a presenter call to make.
C10_Witness ==
    \E t, u \in Workers :
        /\ t # u
        /\ block_by = t
        /\ Head(th[t].plan).op = "write"
        /\ th[u].pc = "plan" /\ Head(th[u].plan).op = "lock"

\* s is a prefix of u.
IsPrefix(s, u) == Len(s) <= Len(u) /\ s = SubSeq(u, 1, Len(s))

TailOrEmpty(s) == IF s = <<>> THEN <<>> ELSE Tail(s)

\* The bytes worker t has read that are to be relayed: all of them, but
\* for the first byte of a client whose '0' the fixup removes.
ToRelay(t) ==
    IF t[2] = "up" /\ to_remove(t[1]) THEN TailOrEmpty(th[t].rd) ELSE th[t].rd

\* The bytes worker t has written that come from its source: all of them,
\* but for the first byte where the fixup inserts a '0'.
Relayed(t) ==
    IF t[2] = "up" /\ to_insert(t[1]) THEN TailOrEmpty(th[t].wr) ELSE th[t].wr

\* C11 (transparent relay): at every moment the bytes a worker has written
\* to its peer are a prefix of the bytes it has read from its source, in
\* the same order and unchanged, but for the one byte '0' the fixup removes
\* from or inserts at the start of the client-to-server direction; and a
\* pump that is about to read has written every byte it has read.
C11_TransparentRelay ==
    \A t \in Workers :
        /\ IsPrefix(Relayed(t), ToRelay(t))
        /\ (t[2] = "up" /\ to_insert(t[1]) /\ th[t].wr # <<>>) => Head(th[t].wr) = 48
        /\ (t[2] = "up" /\ to_remove(t[1]) /\ th[t].in_pump) => th[t].rd[1] = 48
        /\ th[t].pc = "read" => Relayed(t) = ToRelay(t)

\* An upstream pump behind a removed '0' has relayed one chunk and got a
\* part of the next one out before its write failed; another upstream pump
\* would have inserted the '0'.
C11_Witness ==
    \E t \in Workers :
        /\ t[2] = "up" /\ to_remove(t[1])
        /\ th[t].call = "on_error_write"
        /\ Len(Relayed(t)) > 3
        /\ Len(Relayed(t)) < Len(ToRelay(t))

\* The upstream worker of connection c.
Up(c) == <<c, "up">>

\* C12 (fixup on ingress): for every client that came over a local socket,
\* whatever the server's transport, the upstream pump starts only after
\* the fixup has read exactly one byte, the '0'; that byte is not among
\* the bytes passed to on_data; and a client whose first byte is not '0'
\* has its worker end with InvalidData, no byte of it forwarded.
C12_IngressFixup ==
    \A c \in Conns :
        (conns[c].client = "unix" /\ th[Up(c)].pc # "idle") =>
            /\ th[Up(c)].in_pump => th[Up(c)].fix = <<48>>
            /\ IsPrefix(th[Up(c)].fed, TailOrEmpty(th[Up(c)].rd))
            /\ (th[Up(c)].rd # <<>> /\ th[Up(c)].rd[1] # 48) =>
                   /\ th[Up(c)].wr = <<>>
                   /\ th[Up(c)].pc = "done"
                   /\ th[Up(c)].call = "invalid_data"

\* C13 (fixup on egress): whenever the server connection is a local socket
\* the first byte written to the server is '0'; when it is TCP every byte
\* written to the server is a byte read from the client.
C13_EgressFixup ==
    \A c \in Conns :
        /\ (conns[c].server = "unix" /\ th[Up(c)].wr # <<>>) => th[Up(c)].wr[1] = 48
        /\ conns[c].server = "inet" => IsPrefix(th[Up(c)].wr, ToRelay(Up(c)))

IsFixupCall(name) == name = "on_adjustment"

\* Client and server of connection c are of one transport family.
SameFamily(c) == conns[c].client # "none" /\ conns[c].client = conns[c].server

\* C14 (notification when the transports match): when client and server
\* are of the same family, the client-side observer has received exactly
\* one fixup notification before its first on_data.
C14_SameFamilyNotified ==
    \A c \in Conns :
        (SameFamily(c) /\ \E i \in DOMAIN th[Up(c)].ocalls : th[Up(c)].ocalls[i] = "on_data") =>
            /\ Head(th[Up(c)].ocalls) = "on_adjustment"
            /\ Len(SelectSeq(th[Up(c)].ocalls, IsFixupCall)) = 1

\* C15 (connect errors are connection-local): a connect(forward_to) that
\* fails for an accepted client does not end the listener, which goes on
\* to accept later clients.
C15_ConnectErrorsLocal ==
    th[Listener].call = "connect" => th[Listener].pc # "done"

\* C16 (failure isolation): however a pump exits, the listener is not
\* brought down, and no call of a worker of another connection fails for
\* it: the listener never panics, and a worker panics only beside a failed
\* worker of its own connection.
C16_FailureIsolation ==
    /\ th[Listener].exit # "panic"
    /\ \A t \in Workers :
           th[t].exit = "panic" =>
               \E u \in Workers : u[1] = t[1] /\ u # t /\ th[u].exit = "err"

\* C17 (an invalid fixup byte ends the connection): when the upstream
\* worker has ended with InvalidData, the connection to the server is
\* released: the worker has closed its sending side towards the server, so
\* that the server sees EOF and the downstream worker can end as well.
C17_InvalidByteReleases ==
    \A c \in Conns :
        th[Up(c)].call = "invalid_data" =>
            /\ th[Up(c)].pc = "done"
            /\ th[Up(c)].w_shut

\* The socket operations of the listener's latest call, when that call is
\* Address::listen.
ListenOps == IF th[Listener].ops # <<>> /\ th[Listener].ops[1][1] = "bind"
             THEN th[Listener].ops ELSE <<>>

\* The socket operations of the connect call for the latest client, once
\* that call has been made.
ConnectOps == IF th[Listener].pc # "connect" /\ th[Listener].ops # <<>>
                 /\ th[Listener].ops[1][1] # "bind"
              THEN th[Listener].ops ELSE <<>>

\* C19 (bind recovery): Address::listen on a local-socket address removes
\* the path and binds again exactly once, when and only when the first
\* bind fails with AddrInUse; another first bind error, a failing removal
\* or a failing second bind is returned as the error, with nothing tried
\* after it and, for another first bind error, with no removal.
C19_BindRecovery ==
    (config.listen = "unix" /\ ListenOps # <<>>) =>
        /\ Len(ListenOps) <= 3
        /\ ListenOps[1][1] = "bind"
        /\ Len(ListenOps) >= 2 <=> ListenOps[1][2] = "AddrInUse"
        /\ Len(ListenOps) >= 2 => ListenOps[2][1] = "remove_file"
        /\ Len(ListenOps) = 3 <=> (Len(ListenOps) >= 2 /\ ListenOps[2][2] = "ok")
        /\ Len(ListenOps) = 3 => ListenOps[3][1] = "bind"
        /\ IF Last(ListenOps)[2] = "ok"
           THEN th[Listener].call # "listen" /\ th[Listener].err = ""
           ELSE /\ th[Listener].pc = "done"
                /\ th[Listener].call = "listen"
                /\ th[Listener].err = Last(ListenOps)[2]

\* The path was in use: it has been removed and bound again, and the
\* listener accepts.
C19_Witness ==
    /\ config.listen = "unix"
    /\ ListenOps = << <<"bind", "AddrInUse">>, <<"remove_file", "ok">>, <<"bind", "ok">> >>
    /\ th[Listener].pc = "accept"

\* The order of the attempts of connect: the local-socket expansion first
\* wherever there is one, the TCP expansion only after it is absent or has
\* failed; the server is reached over the attempt that succeeded.
ConnectOrder ==
    /\ Len(ConnectOps) <= 2
    /\ to_unix(config.forward) # "None" => ConnectOps[1][1] = "connect_unix"
    /\ to_unix(config.forward) = "None" => ConnectOps = << <<"connect_inet", ConnectOps[1][2]>> >>
    /\ Len(ConnectOps) = 2 =>
           /\ ConnectOps[1][2] # "ok"
           /\ ConnectOps[2][1] = "connect_inet"
    /\ (ConnectOps[1] = <<"connect_unix", "ok">>) => conns[nconn].server = "unix"
    /\ conns[nconn].server = "unix" => ConnectOps = << <<"connect_unix", "ok">> >>
    /\ conns[nconn].server = "inet" => Last(ConnectOps) = <<"connect_inet", "ok">>

\* The listener's connect has failed.
ConnectFailed == th[Listener].pc = "done" /\ th[Listener].call = "connect"

\* C20 as stated: the attempts are made in that order, and a connect of
\* which no attempt succeeds fails with ConnectionRefused.
C20_Original ==
    ConnectOps # <<>> =>
        /\ ConnectOrder
        /\ ConnectFailed => th[Listener].err = "ConnectionRefused"

\* C20 (connect policy, amended): the attempts are made in that order; a
\* connect of which no attempt succeeds fails with the error of the TCP
\* attempt when the address has a TCP expansion, and with
\* ConnectionRefused when it has none.
C20_Amended ==
    ConnectOps # <<>> =>
        /\ ConnectOrder
        /\ ConnectFailed <=> Last(ConnectOps)[2] # "ok"
        /\ ConnectFailed =>
               IF to_inet(config.forward) = "None"
               THEN th[Listener].err = "ConnectionRefused"
               ELSE /\ Last(ConnectOps)[1] = "connect_inet"
                    /\ th[Listener].err = Last(ConnectOps)[2]

\* Neither the local socket nor the TCP port of a PortOnly address is
\* reached, and the TCP attempt has timed out.
C20_Witness ==
    /\ config.forward = "PortOnly"
    /\ ConnectFailed
    /\ ConnectOps = << <<"connect_unix", "NotFound">>, <<"connect_inet", "TimedOut">> >>
    /\ th[Listener].err = "TimedOut"

\* Worker t has half-closed its write side towards its peer, and that peer
\* has closed its own sending side.
HalfClosedBothWays(t) == th[t].w_shut /\ Target(t) \in conns[t[1]].closed

\* Worker t has ended, and on_close is the last call it made on its
\* observer.
EndedOnClose(t) ==
    /\ th[t].pc = "done"
    /\ th[t].ocalls # <<>>
    /\ Last(th[t].ocalls) = "on_close"

\* C18 as stated: once a pump has half-closed its write side towards a
\* peer and that peer has closed its sending side, the opposite pump
\* eventually reads EOF, calls on_close and exits.
C18_Original ==
    \A t \in Workers :
        HalfClosedBothWays(t) ~> (th[t].pc = "done" /\ EndedOnClose(Opposite(t)))

\* C18 (half-close propagation, amended): once a pump has half-closed its
\* write side towards a peer and that peer has closed its sending side,
\* both workers of the connection eventually terminate; the opposite one
\* has read EOF and called on_close last, unless it has ended through a
\* failure: a read or write error, a failed observer call or fixup, or a
\* panic.
C18_Amended ==
    \A t \in Workers :
        HalfClosedBothWays(t) ~>
            /\ th[t].pc = "done"
            /\ th[Opposite(t)].pc = "done"
            /\ \/ EndedOnClose(Opposite(t))
               \/ th[Opposite(t)].exit \in {"err", "panic"}
               \/ th[Opposite(t)].call = "on_error_read"

\* The upstream pump has half-closed towards the server, the server has
\* closed its side, and the downstream pump has read EOF, called on_close
\* and ended in turn.
C18_Witness ==
    \E c \in Conns :
        /\ HalfClosedBothWays(Up(c))
        /\ EndedOnClose(Up(c))
        /\ EndedOnClose(<<c, "down">>)
        /\ th[<<c, "down">>].exit = "ok"
        /\ th[<<c, "down">>].w_shut

\* ---------------------------------------------------- claims on the presenter

\* The lines of the presenter's output, the last one perhaps unfinished.
OutLines == split_inclusive(formatter.out)

LineMarks == {"DR", Rail, "UR", "BU"}

\* The calls named op among the calls made on the presenter.
CallsOf(op) == SelectSeq(calls, LAMBDA c : c = op)

\* Those of lines that start with the token mark.
LinesOf(lines, mark) == SelectSeq(lines, LAMBDA l : l[1] = mark)

\* The lines of an output are framed: as many opening lines as starts and
\* closing lines as ends, every line with its mark in column 0 and dump
\* bytes after it, rail lines and closing lines only after an opening line
\* or a rail line, everything else only after a closing line or an event.
Framed(lines, starts, ends) ==
    /\ Len(LinesOf(lines, "DR")) = starts
    /\ Len(LinesOf(lines, "UR")) = ends
    /\ \A i \in DOMAIN lines :
           /\ lines[i][1] \in LineMarks
           /\ \A k \in 2..Len(lines[i]) : lines[i][k] \in DumpBytes
           /\ lines[i][1] \in {"DR", "UR", "BU"} => lines[i] = <<lines[i][1], "NL">>
           /\ IF lines[i][1] \in {Rail, "UR"}
              THEN i > 1 /\ lines[i - 1][1] \in {"DR", Rail}
              ELSE i > 1 => lines[i - 1][1] \in {"UR", "BU"}

\* C21 (block framing): whatever slices the writes of a block are handed,
\* every start_block has put out one opening line and every end_block one
\* closing line; every line between an opening line and its closing line
\* starts with the left rail, which appears nowhere but in column 0 of
\* those lines; and a last line the writes left unfinished is ended before
\* the closing line.
C21_BlockFraming ==
    /\ Framed(OutLines, Len(CallsOf("start_block")), Len(CallsOf("end_block")))
    /\ status = "outside" => (formatter.out = <<>> \/ Last(formatter.out) = "NL")
    /\ Len(SelectSeq(formatter.out, LAMBDA b : b = "x"))
         = Len(SelectSeq(input, LAMBDA b : b = "x"))

\* A block has been closed whose writes were cut in the middle of a line
\* and left the last line unfinished.
C21_Witness ==
    /\ Len(CallsOf("write")) >= 2
    /\ Last(calls) = "end_block"
    /\ Len(input) >= 3
    /\ input[1] = "x" /\ input[2] = "NL" /\ Last(input) = "x"
    /\ Len(LinesOf(OutLines, Rail)) = 2

\* C26 (the presenter's assertions): after calls that follow the protocol
\* and all succeed no assertion has failed; outside a block in_block is
\* false and at_start is true, inside a block in_block is true.
C26_AssertionsHold ==
    /\ ~formatter.panicked
    /\ status = "outside" => (~formatter.in_block /\ formatter.at_start)
    /\ status = "inside" => formatter.in_block

\* A message has been accepted right after a block whose last line the
\* writes had left unfinished.
C26_Witness ==
    /\ Len(calls) >= 4
    /\ calls[Len(calls)] = "message"
    /\ calls[Len(calls) - 1] = "end_block"
    /\ calls[Len(calls) - 2] = "write"
    /\ input # <<>>
    /\ Last(input) = "x"
    /\ ~formatter.panicked

\* ------------------------------------------------ claims on the pump's exits

\* Worker t has stopped in the call named name on its observer.
StoppedIn(t, name) == th[t].pc = "done" /\ th[t].call = name

\* C22 (read-side termination): a pump whose read returned EOF has called
\* on_close, one whose read failed has called on_error for a read; either
\* call is the last the pump makes, and a pump that has stopped for EOF or
\* for a read error has half-closed its write side.
C22_ReadSideTermination ==
    \A t \in Workers :
        (StoppedIn(t, "on_close") \/ StoppedIn(t, "on_error_read")) =>
            /\ Last(th[t].ocalls) = th[t].call
            /\ th[t].w_shut

\* C23 (write-error termination): a pump whose write_all failed has called
\* on_error for a write as its last call, has half-closed the read side of
\* its source and has terminated.
C23_WriteErrorTermination ==
    \A t \in Workers :
        th[t].call = "on_error_write" =>
            /\ Last(th[t].ocalls) = "on_error_write"
            /\ th[t].pc = "done" => th[t].r_shut

\* A call of worker t on its observer has returned an error: the output
\* error of the presenter.
ObserverFailed(t) == t \in Workers /\ th[t].err = "output"

\* C24 (observer failures propagate): a pump, or a worker before its pump,
\* that got an error back from a call on its observer has made no call
\* after that one, reads and writes no more, and has terminated with that
\* error as its result.
C24_ObserverFailurePropagates ==
    \A t \in Workers :
        ObserverFailed(t) =>
            /\ th[t].pc = "done"
            /\ th[t].exit = "err"
            /\ Last(th[t].ocalls) = th[t].call
            /\ IsPrefix(Relayed(t), ToRelay(t))

\* A pump whose write failed has ended with the error of its on_error
\* call, not with the write error.
C24_Witness ==
    \E t \in Workers :
        /\ ObserverFailed(t)
        /\ StoppedIn(t, "on_error_write")
        /\ th[t].ocalls = <<"on_data", "on_error_write">>
        /\ th[t].exit = "err"

\* C30 (an observer failure stops forwarding): a pump whose on_data has
\* returned an error has not written the chunk of that call, nor anything
\* after it; it has terminated without on_close or on_error and without
\* half-closing either half of a socket.
C30_FailedChunkNotForwarded ==
    \A t \in Workers :
        (ObserverFailed(t) /\ th[t].call = "on_data") =>
            /\ th[t].pc = "done"
            /\ Last(th[t].ocalls) = "on_data"
            /\ \A i \in DOMAIN th[t].ocalls : ~IsTerminalCall(th[t].ocalls[i])
            /\ IsPrefix(Relayed(t), ToRelay(t))
            /\ Len(Relayed(t)) < Len(ToRelay(t))
            /\ ~th[t].w_shut
            /\ ~th[t].r_shut

\* The on_data of the second chunk of a pump has failed: the first chunk
\* has been forwarded, the second has not.
C30_Witness ==
    \E t \in Workers :
        /\ ObserverFailed(t) /\ StoppedIn(t, "on_data")
        /\ Relayed(t) # <<>>
        /\ Len(Relayed(t)) < Len(ToRelay(t))

\* The blocks the presenter has been asked to start.
BlocksStarted(f) == {i \in DOMAIN f.log : f.log[i].op = "start_block"}

\* C25 (the fixup chunk of a raw observer): a RawObserver that has been
\* given no bytes at all, in a fixup notification or otherwise, has
\* started no block: an empty fixup chunk is not shown as a block.
C25_EmptyChunkNoBlock ==
    (observer.kind = "raw" /\ input = <<>>) => BlocksStarted(formatter) = {}

\* The other half: a fixup chunk that is not empty is one block, and the
\* note, when one is given, is the one-line message after it.
C25_ChunkThenNote ==
    (observer.kind = "raw" /\ status = "open" /\ input = <<48>>) =>
        /\ Cardinality(BlocksStarted(formatter)) = 1
        /\ eof # "" =>
             \E i \in DOMAIN formatter.log :
                 /\ formatter.log[i].op = "message"
                 /\ formatter.log[i].text = eof
                 /\ \A j \in BlocksStarted(formatter) : j < i


\* C27 (the presenter recovers from a failed block): once the call that
\* started a block has returned, with or without an error, the shared
\* presenter is outside a block again, and the guard of no call has been
\* poisoned, so that the next message or start_block of any observer is
\* accepted.
C27_PresenterRecovers ==
    /\ block_by = NoThread => ~presenter.in_block
    /\ ~mutex.poisoned


\* The chunk a step has fed: what input has grown by.
Fed == SubSeq(input', Len(input) + 1, Len(input'))

\* Blocks::process on the bare parser with the chunk of this step, the
\* fail-th callback failing.
Retried(fail) ==
    process(observer.blocks, Fed, "plain", Env(<<>>, formatter, calls, fail),
            observer.side)

\* This step is a call of process whose fail-th callback returned an error.
FailedIn(fail) ==
    /\ observer.kind = "parser" /\ status = "open" /\ input' # input
    /\ Retried(fail).result = "err"
    /\ observer' = [observer EXCEPT !.blocks = Retried(fail).self]
    /\ calls' = Retried(fail).env.calls

\* The input bytes the parser accounts for: the headers and payloads it
\* has delivered, and what it holds in its buffer.
RECURSIVE Delivered(_)
Delivered(cs) ==
    IF cs = <<>> THEN 0 ELSE 2 + Len(Head(cs).payload) + Delivered(Tail(cs))

Accounted == Delivered(calls) + Len(observer.blocks.buffer)

\* C28 (parser state on callback failure): a call of process whose
\* callback returns an error leaves the parser reset (buffer empty,
\* goal = 2) and open for a later call, the failing invocation is the last
\* one it made, and the bytes of the chunk after the failing block are in
\* neither the buffer nor an invocation; no later call fails an assertion.
C28_ResetOnFailure ==
    [][\A fail \in FailChoices :
           FailedIn(fail) =>
               /\ observer'.blocks.buffer = <<>>
               /\ observer'.blocks.goal = 2
               /\ status' = "open"
               /\ Len(calls') = Len(calls) + fail.n
               /\ Delivered(calls') - Accounted <= Len(Fed)
               /\ Len(observer.blocks.buffer) < observer.blocks.goal
      ]_vars

\* A callback failed on a block with bytes of the chunk after it: those
\* bytes are accounted for nowhere, and a later chunk was parsed from a
\* clean start, its block delivered.
C28_Witness ==
    /\ observer.kind = "parser" /\ ~clean /\ status = "open" /\ split
    /\ Accounted < Len(input)
    /\ Len(calls) >= 2
    /\ observer.blocks.buffer = <<>>


\* The last three entries of a presenter's log.
LastCall(f) == SubSeq(f.log, Len(f.log) - 2, Len(f.log))

\* A MessageObserver has been closed at a block boundary, with payloads in
\* its reassembly buffer that no last block has followed.
ClosedUnterminated ==
    /\ observer.kind = "message" /\ status = "closed"
    /\ observer.blocks.buffer = <<>>
    /\ observer.message # <<>>

\* C29 (unterminated message at EOF): a MessageObserver closed at a block
\* boundary with an unterminated message in its reassembly buffer has
\* reported the clean close, "closed its side of the connection"; the
\* payloads are still in the buffer and in no presenter block, the blocks
\* being those of the complete messages: on_close has started none.
C29_UnterminatedAtEof ==
    ClosedUnterminated =>
        /\ Len(formatter.log) >= 3
        /\ [i \in 1..3 |-> LastCall(formatter)[i].op] = <<"lock", "message", "unlock">>
        /\ LastCall(formatter)[2].text = CLOSE_MESSAGE
        /\ LastCall(formatter)[2].ok
        /\ observer.message = PendingOf(BlocksOf(input), <<>>)
        /\ Cardinality(BlocksStarted(formatter)) = Len(MessagesOf(BlocksOf(input), <<>>))

\* Closed after a complete message and the first block of the next one.
C29_Witness ==
    /\ ClosedUnterminated
    /\ BlocksStarted(formatter) # {}
    /\ Len(BlocksOf(input)) = 2


\* The steps at which a worker is in, or about to make, a socket call: the
\* read and write of the fixup, the read and write_all of pump.  The
\* shutdown calls are made as the worker ends, which leaves it done.
SocketSteps == {"fix_read", "fix_write", "read", "write", "done"}

AtSocket(t) == th[t].pc \in SocketSteps

\* C31 (no presenter lock across socket I/O): a worker that is in, or about
\* to make, a socket read, write or shutdown does not hold the presenter
\* mutex; the guard is held only by a thread that is inside a call of its
\* observer (or, for the listener, inside connected).
C31_NoLockAcrossIO ==
    /\ \A t \in Workers : AtSocket(t) => mutex.holder # t
    /\ \A t \in Threads : mutex.holder = t => th[t].pc = "plan"

\* One pump is stalled in write_all with a chunk it cannot get out, its
\* observer call behind it, while the other pump holds the guard and logs.
C31_Witness ==
    \E t, u \in Workers :
        /\ t # u
        /\ th[t].pc = "write" /\ th[t].chunk # <<>> /\ th[t].ocalls # <<>>
        /\ mutex.holder = u /\ th[u].pc = "plan"
        /\ presenter.in_block


====
